---- MODULE Spec2Model ----
(***************************************************************************)
(* A model of the dog-crash server's real-time coordination layer:         *)
(*   - the race lifecycle manager   (src/services/raceManager.js)           *)
(*   - the session aggregation cache (src/services/gameSessionCache.js)     *)
(*   - the round orchestrator       (src/services/gameCountdownManager.js)  *)
(*   - the prize claim route        (src/routes/race.js)                    *)
(*   - the next-round override route (src/unnamed/part_001)                 *)
(*                                                                         *)
(* Node.js runs one event loop: a step of the model is one macrotask (a    *)
(* timer callback, the completion of a persistence call, or a request)     *)
(* together with all the synchronous code and promise continuations it     *)
(* triggers, up to the next persistence call of every async function       *)
(* involved.                                                               *)
(*                                                                         *)
(* Time is a discrete clock `now` in seconds, the granularity of           *)
(* generateRaceId; the durations are scaled down to a few seconds.  While  *)
(* a persistence call is pending at most MaxSlow seconds pass in all; when *)
(* none is pending the clock jumps to the next timer.  A timer fires when  *)
(* it is due, the earliest first.                                          *)
(* Amounts of coins are integers; contributionToPool and the prize pool    *)
(* are kept in hundredths of a coin, so that the 1% rate and the           *)
(* percentages of the prize rules are exact integer arithmetic.            *)
(***************************************************************************)
EXTENDS Integers, Sequences, FiniteSets, Bags, TLC

\* ------------------------------------------------------------------ bounds
MaxTime == 12           \* the clock stops advancing here
MaxSlow == 1            \* seconds that pass while persistence calls are pending
MaxUser == 2            \* users beyond those of a full participant table
MaxSessions == 2        \* addSession calls on the cache
MaxClaims == 2          \* claim requests on the prize
MaxGets == 2            \* GET requests for the user's crash multiplier
MaxRound == 3           \* rounds of the countdown manager

\* ------------------------------------------------- program constants (scaled)
Top1000 == 11           \* the cap of maintainTop1000: 1000, scaled
RaceDuration == 4       \* config.raceDuration = raceInterval: 4 h, scaled
RaceCleanupDelay == 2   \* config.raceCleanupDelay: 10 min, scaled
BootTime == 5           \* the clock when the process starts
MinGuarantee == 50000   \* the minimum prize pool, in coins
NoRace == -1            \* null, for a race id
BootRet == -2           \* an endRaceById awaited by initializeFromDatabase
Undefined == -1         \* undefined: a missing argument, property or document field

\* The users who record sessions: user ids are integers, ordered as
\* localeCompare orders the userIds.
Users == {1} \cup (Top1000 .. (Top1000 + MaxUser - 1))
\* The request bodies of POST /user/:userId/record the model draws from.
SessionInputSeq ==
    << [betAmount |-> 1, winAmount |-> 0, isWin |-> FALSE, crashMultiplier |-> 2],
       [betAmount |-> 1, winAmount |-> 3, isWin |-> TRUE, crashMultiplier |-> 3],
       [betAmount |-> 2, winAmount |-> 3, isWin |-> TRUE, crashMultiplier |-> 2],
       [betAmount |-> 4, winAmount |-> 5, isWin |-> TRUE, crashMultiplier |-> 2] >>
SessionInputs == {SessionInputSeq[i] : i \in 1..Len(SessionInputSeq)}

VARIABLES
    \* the clock
    now,
    slow,               \* seconds that have passed while persistence calls were pending
    \* persistence: the Race and RacePrize collections
    dbRace,             \* raceId -> the Race document
    dbPrizes,           \* <<raceId, userId>> -> [rank, prizeAmount, status]
    dbSessions,         \* the GameSession collection: a set of records
    dbParticipants,     \* the RaceParticipant collection: raceId -> (userId -> row)
    \* RaceManager
    curRace,            \* this.currentRace.raceId, or NoRace
    timers,             \* pending timers in registration order: [kind, race, due]
    tasks,              \* bag of suspended async calls
    \* GameSessionCache
    currentRaceId,
    raceSessions,       \* raceId -> globalSessions
    raceParticipants,   \* raceId -> (userId -> stats)
    pendingSaves,
    sessionsLeft,       \* addSession calls still to come
    addReturned,        \* what the last addSession call returned
    \* history
    flushed,            \* races whose finalizeRace has completed its flush
    \* POST /race/prizes/:prizeId/claim
    prize,              \* the RacePrize document: [userId, prizeAmount, status]
    balance,            \* User.balance of the prize's owner
    claims,             \* the claim requests: [pc, userId, prizeId, doc, user, status]
    prize0,             \* history: the prize and the balance before any request
    \* GET /game/ai-crash-multiplier/:userId/:betAmount
    userSettings,       \* the user's UserGameSettings documents: none or one
    gets,               \* the requests: [pc, betAmount, crashMultiplier, isUserCustom]
    \* GameCountdownManager
    phase,              \* currentState.phase
    isCountingDown,     \* currentState.isCountingDown
    round,              \* currentState.round
    countdownTimer,     \* this.countdownTimer: a timer handle or NoTimer
    phaseTimers,        \* the pending phase timers: [id, handler, delay]
    countdownEndTime,   \* currentState.countdownEndTime, counted from the
                        \* countdownStartTime of the phase; NoEndTime for null
    gameId,             \* currentState.gameId: NoGame for null
    called,             \* the method of the manager the last step called, and
                        \* what it returned
    countdownReply,     \* the response of GET /game/countdown, when the last step
                        \* was that request
    config,             \* this.config
    configSaveTimer,    \* this.configSaveTimer: "null", "pending" or "fired"
    hasPendingConfigSave,
    saveImmediate,      \* the setImmediate of saveConfigAsync is queued
    configFile,         \* gameCountdownConfig.json
    emitted,            \* the events the last step emitted
    fired,              \* the phase timer whose handler the last step ran
    \* the prize calculation at the end of a race
    calculated,         \* calculatePrizeDistribution has returned
    distributions,      \* the distributions it returned
    poolReturned,       \* the prizePool it returned (calculateRacePrizePool)
    \* the leaderboard requests
    leaderboardAsked,   \* getRaceLeaderboard has returned
    limitAsked,         \* the limit it was called with
    leaderboardReturned,\* the entries it returned
    \* the flushes of the session cache and the termination signals
    retryCount,         \* session id -> the session's retryCount (0 for undefined)
    inFlight,           \* the insertMany calls awaited: [path, sessions]
    insertAttempts,     \* history: session id -> the bulk inserts of batchSaveToDB
                        \* that carried the session
    signal,             \* "none", "SIGTERM" (handled, still running), "closing"
                        \* (SIGINT handled, connection closing) or "exited"
    \* POST /user/:userId/record
    userStats,          \* the User document: [exists, balance, totalFlights, ...]
    recordReq,          \* the request being handled: [pc, body, free, user]
    recordReply,        \* its response: [status, before], before = the stored
                        \* document when the request arrived
    \* the phase events of the countdown manager
    lastEvent,          \* history: the last phase event emitted for the current gameId
    \* the sessionId of the request bodies
    sessionIdOf         \* session id -> the sessionId field of the session

dbVars == <<dbRace, dbPrizes, dbSessions, dbParticipants>>
mgrVars == <<curRace, timers, tasks, flushed>>
cacheVars == <<currentRaceId, raceSessions, raceParticipants, pendingSaves, sessionsLeft,
               addReturned>>
clockVars == <<now, slow>>
raceVars == <<clockVars, dbVars, mgrVars, cacheVars>>
claimVars == <<prize, balance, claims, prize0>>
overrideVars == <<userSettings, gets>>
countdownVars == <<phase, isCountingDown, round, countdownTimer, phaseTimers,
                   countdownEndTime, gameId, called, countdownReply, config,
                   configSaveTimer, hasPendingConfigSave, saveImmediate, configFile,
                   emitted, fired>>
prizeVars == <<calculated, distributions, poolReturned, leaderboardAsked, limitAsked,
               leaderboardReturned>>
recordVars == <<userStats, recordReq, recordReply>>
flushVars == <<retryCount, inFlight, insertAttempts, signal, recordVars>>
extraVars == <<lastEvent, sessionIdOf>>
vars == <<raceVars, claimVars, overrideVars, countdownVars, extraVars, prizeVars, flushVars>>
\* what the actions of one subsystem leave alone
notRaceVars == <<claimVars, overrideVars, countdownVars, extraVars, prizeVars, flushVars>>
notClaimVars == <<raceVars, overrideVars, countdownVars, extraVars, prizeVars, flushVars>>
notOverrideVars == <<raceVars, claimVars, countdownVars, extraVars, prizeVars, flushVars>>
notCountdownVars == <<raceVars, claimVars, overrideVars, extraVars, prizeVars, flushVars>>
notPrizeVars == <<raceVars, claimVars, overrideVars, countdownVars, extraVars, flushVars>>

\* --------------------------------------------------------------- helpers
RECURSIVE SumOver(_, _)
SumOver(f, S) ==
    IF S = {} THEN 0
    ELSE LET x == CHOOSE y \in S : TRUE IN f[x] + SumOver(f, S \ {x})

Max(a, b) == IF a >= b THEN a ELSE b

\* The elements of S as the sequence a sort with the strict total order
\* Before(a, b) ("a comes first") produces.
SortBy(S, Before(_, _)) ==
    LET pos(u) == 1 + Cardinality({v \in S : Before(v, u)})
    IN  [i \in 1..Cardinality(S) |-> CHOOSE u \in S : pos(u) = i]

SeqToSet(s) == {s[i] : i \in 1..Len(s)}

\* First n elements of s (Array.prototype.slice(0, n)).
Slice(s, n) == SubSeq(s, 1, IF n < Len(s) THEN n ELSE Len(s))

\* =====================================================================
\* GameSessionCache (src/services/gameSessionCache.js)
\* =====================================================================

NewParticipant ==
    [totalBetAmount |-> 0, totalWinAmount |-> 0, netProfit |-> 0,
     contributionToPool |-> 0, sessionCount |-> 0]

\* The comparator of maintainTop1000 and getUserRaceData: netProfit DESC, userId ASC.
ByNetProfit(parts, a, b) ==
    \/ parts[a].netProfit > parts[b].netProfit
    \/ parts[a].netProfit = parts[b].netProfit /\ a < b

\* A comparator that breaks ties by descending userId: a bug the leaderboard
\* claim must detect.
ByContribution_TieByIdDesc(parts, a, b) ==
    \/ parts[a].contributionToPool > parts[b].contributionToPool
    \/ parts[a].contributionToPool = parts[b].contributionToPool /\ a > b

\* The comparator of getRaceLeaderboard: contributionToPool DESC, userId ASC.
ByContribution(parts, a, b) ==
    \/ parts[a].contributionToPool > parts[b].contributionToPool
    \/ parts[a].contributionToPool = parts[b].contributionToPool /\ a < b

\* maintainTop1000 without the removal: a bug the cap claim must detect.
MaintainTop1000_NoTrim(parts) == parts

\* maintainTop1000: beyond the cap, keep the first Top1000 by netProfit.
MaintainTop1000(parts) ==
    IF Cardinality(DOMAIN parts) <= Top1000 THEN parts
    ELSE LET sorted == SortBy(DOMAIN parts, LAMBDA a, b : ByNetProfit(parts, a, b))
             keep == SeqToSet(Slice(sorted, Top1000))
         IN  [u \in keep |-> parts[u]]

\* A stamp that keeps the signed profit: a bug the sign claim must detect.
SessionNetProfit_Signed(bet, win) == win - bet

\* The net profit addSession stamps on a session: only positive profit counts.
SessionNetProfit(bet, win) == IF win - bet > 0 THEN win - bet ELSE 0

\* updateRaceParticipant up to its call of maintainTop1000: create the entry of
\* a new user and accumulate the session.
\* contributionToPool is in hundredths of a coin: max(0, win) * 0.01 coins.
AccumulateSession(parts, u, s) ==
    LET p0 == IF u \in DOMAIN parts THEN parts[u] ELSE NewParticipant
        p1 == [totalBetAmount |-> p0.totalBetAmount + s.betAmount,
               totalWinAmount |-> p0.totalWinAmount + s.winAmount,
               netProfit |-> p0.netProfit + s.netProfit,
               contributionToPool |-> p0.contributionToPool + Max(0, s.winAmount),
               sessionCount |-> p0.sessionCount + 1]
    IN  [v \in DOMAIN parts \cup {u} |-> IF v = u THEN p1 ELSE parts[v]]

\* updateRaceParticipant: accumulate the session, then maintain the cap.
UpdateRaceParticipant(parts, u, s) == MaintainTop1000(AccumulateSession(parts, u, s))

\* getRaceLeaderboard: sort by the comparator, slice(0, limit), and stamp
\* rank = index + 1 on the entries.
GetRaceLeaderboard(raceId, limit) ==
    IF raceId \notin DOMAIN raceParticipants THEN <<>>
    ELSE LET parts == raceParticipants[raceId]
             sliced == Slice(SortBy(DOMAIN parts,
                                    LAMBDA a, b : ByContribution(parts, a, b)), limit)
         IN  [i \in 1..Len(sliced) |->
                [userId |-> sliced[i],
                 contributionToPool |-> parts[sliced[i]].contributionToPool,
                 netProfit |-> parts[sliced[i]].netProfit,
                 rank |-> i]]

\* A pool that tells to distribute whatever was contributed: a bug the pool
\* claim must detect.
CalculateRacePrizePool_AlwaysDistribute(raceId) ==
    IF raceId \notin DOMAIN raceParticipants
    THEN [totalPool |-> 0, contributedAmount |-> 0,
          shouldDistributePrizes |-> FALSE, participants |-> 0]
    ELSE LET parts == raceParticipants[raceId]
             contributed == SumOver([u \in DOMAIN parts |-> parts[u].contributionToPool],
                                    DOMAIN parts)
         IN  [totalPool |-> Max(contributed, MinGuarantee * 100),
              contributedAmount |-> contributed,
              shouldDistributePrizes |-> TRUE,
              participants |-> Cardinality(DOMAIN parts)]

\* calculateRacePrizePool, in hundredths of a coin.
CalculateRacePrizePool(raceId) ==
    IF raceId \notin DOMAIN raceParticipants
    THEN [totalPool |-> 0, contributedAmount |-> 0,
          shouldDistributePrizes |-> FALSE, participants |-> 0]
    ELSE LET parts == raceParticipants[raceId]
             contributed == SumOver([u \in DOMAIN parts |-> parts[u].contributionToPool],
                                    DOMAIN parts)
         IN  [totalPool |-> Max(contributed, MinGuarantee * 100),
              contributedAmount |-> contributed,
              shouldDistributePrizes |-> contributed > 0,
              participants |-> Cardinality(DOMAIN parts)]

\* A split that rounds up: a bug the prize claim must detect.
FloorPct_Ceil(totalPool, pct) == (totalPool * pct + 9999) \div 10000

\* Math.floor(totalPool * pct / 100) in coins, totalPool in hundredths.
FloorPct(totalPool, pct) == (totalPool * pct) \div 10000

\* calculatePrizeDistribution: the entries [userId, rank, prizeAmount] in rank order.
CalculatePrizeDistribution(raceId) ==
    LET prizePool == CalculateRacePrizePool(raceId)
        leaderboard == GetRaceLeaderboard(raceId, 1000)
        n == Len(leaderboard)
        rule(r) == IF r = 1 THEN 50 ELSE IF r = 2 THEN 25 ELSE 11
        top == [r \in 1..(IF n < 3 THEN n ELSE 3) |->
                   [userId |-> leaderboard[r].userId, rank |-> r,
                    prizeAmount |-> FloorPct(prizePool.totalPool, rule(r))]]
        remainingAmount == FloorPct(prizePool.totalPool, 14)
        rank4to10 == IF n <= 3 THEN <<>>
                     ELSE SubSeq(leaderboard, 4, IF n < 10 THEN n ELSE 10)
        rest == [i \in 1..Len(rank4to10) |->
                   [userId |-> rank4to10[i].userId, rank |-> i + 3,
                    prizeAmount |-> remainingAmount \div Len(rank4to10)]]
    IN  IF ~prizePool.shouldDistributePrizes \/ n = 0 THEN <<>> ELSE top \o rest

\* setCurrentRace: the three fields of the cache it sets.
SetCurrentRace(raceId) ==
    /\ currentRaceId' = raceId
    /\ raceSessions' = IF raceId \in DOMAIN raceSessions THEN raceSessions
                       ELSE [r \in DOMAIN raceSessions \cup {raceId} |->
                               IF r = raceId THEN <<>> ELSE raceSessions[r]]
    /\ raceParticipants' = IF raceId \in DOMAIN raceParticipants THEN raceParticipants
                           ELSE [r \in DOMAIN raceParticipants \cup {raceId} |->
                                   IF r = raceId THEN <<>> ELSE raceParticipants[r]]

\* The session addSession builds from the request body d of user u.
Session(id, u, d, raceId) ==
    [id |-> id, userId |-> u,
     betAmount |-> d.betAmount, winAmount |-> d.winAmount,
     isWin |-> d.isWin, crashMultiplier |-> d.crashMultiplier,
     raceId |-> raceId, timestamp |-> now,
     netProfit |-> SessionNetProfit(d.betAmount, d.winAmount)]

\* addSession(sessionData) with the early return left out: the session is
\* queued for saving although no race is current.
AddSession_QueuesWithoutRace(u, d) ==
    /\ sessionsLeft > 0
    /\ sessionsLeft' = sessionsLeft - 1
    /\ IF currentRaceId = NoRace
       THEN /\ pendingSaves' = Append(pendingSaves, Session(sessionsLeft, u, d, NoRace))
            /\ addReturned' = "session"
            /\ UNCHANGED <<currentRaceId, raceSessions, raceParticipants>>
       ELSE IF currentRaceId \notin DOMAIN raceSessions
       THEN /\ addReturned' = "TypeError"
            /\ UNCHANGED <<currentRaceId, raceSessions, raceParticipants, pendingSaves>>
       ELSE LET s == Session(sessionsLeft, u, d, currentRaceId)
            IN  /\ raceSessions' = [raceSessions EXCEPT ![currentRaceId] = Append(@, s)]
                /\ raceParticipants' =
                     [raceParticipants EXCEPT ![currentRaceId] =
                        UpdateRaceParticipant(@, u, s)]
                /\ pendingSaves' = Append(pendingSaves, s)
                /\ addReturned' = "session"
                /\ UNCHANGED currentRaceId

\* addSession(sessionData) for user u with the request body d.
AddSession(u, d) ==
    /\ sessionsLeft > 0
    /\ sessionsLeft' = sessionsLeft - 1
    /\ IF currentRaceId = NoRace
       THEN \* no current race: returns null
            /\ addReturned' = "null"
            /\ UNCHANGED <<currentRaceId, raceSessions, raceParticipants, pendingSaves>>
       ELSE IF currentRaceId \notin DOMAIN raceSessions
       THEN \* `raceData` is undefined and its first access throws
            /\ addReturned' = "TypeError"
            /\ UNCHANGED <<currentRaceId, raceSessions, raceParticipants, pendingSaves>>
       ELSE LET s == Session(sessionsLeft, u, d, currentRaceId)
            IN  /\ raceSessions' = [raceSessions EXCEPT ![currentRaceId] = Append(@, s)]
                /\ raceParticipants' =
                     [raceParticipants EXCEPT ![currentRaceId] =
                        UpdateRaceParticipant(@, u, s)]
                /\ pendingSaves' = Append(pendingSaves, s)
                /\ addReturned' = "session"
                /\ UNCHANGED currentRaceId

\* The GameSession document saveRaceDataToDB builds from a cached session.
\* session.sessionId || session.id: the sessionId of the request body, which
\* updateUserRecord always sets.
SessionIdOf(s) == IF s.id \in DOMAIN sessionIdOf THEN sessionIdOf[s.id] ELSE s.id

RaceDbSession(s) ==
    [sessionId |-> SessionIdOf(s), raceId |-> s.raceId, userId |-> s.userId,
     betAmount |-> s.betAmount, crashMultiplier |-> s.crashMultiplier,
     cashOutMultiplier |-> IF s.isWin THEN s.crashMultiplier ELSE 0,
     isWin |-> s.isWin, profit |-> s.netProfit, gameStartTime |-> s.timestamp]

\* The cached session restoreRecentGameSessions builds from a GameSession document.
RestoredSession(d) ==
    [id |-> d.sessionId, userId |-> d.userId, betAmount |-> d.betAmount,
     winAmount |-> IF d.cashOutMultiplier > 0 THEN d.betAmount * d.cashOutMultiplier ELSE 0,
     isWin |-> d.isWin, crashMultiplier |-> d.crashMultiplier,
     raceId |-> d.raceId, timestamp |-> d.gameStartTime, netProfit |-> d.profit]

\* The GameSession document batchSaveToDB builds from a queued session.
BatchDbSession(s) ==
    [sessionId |-> SessionIdOf(s), raceId |-> s.raceId, userId |-> s.userId,
     betAmount |-> s.betAmount, crashMultiplier |-> s.crashMultiplier,
     cashOutMultiplier |-> IF s.isWin THEN s.crashMultiplier ELSE 0,
     isWin |-> s.isWin,
     profit |-> IF s.isWin THEN s.winAmount - s.betAmount ELSE 0 - s.betAmount,
     gameStartTime |-> s.timestamp]

\* GameSession.insertMany(docs, {ordered: false}): sessionId is unique, the
\* documents whose sessionId is new are inserted.
RECURSIVE InsertMany(_, _)
InsertMany(coll, docs) ==
    IF docs = <<>> THEN coll
    ELSE LET d == Head(docs)
             dup == \E i \in 1..Len(coll) : coll[i].sessionId = d.sessionId
         IN  InsertMany(IF dup THEN coll ELSE Append(coll, d), Tail(docs))

\* No flush has run and no signal has arrived.
NoBatch ==
    /\ retryCount = [i \in 1..MaxSessions |-> 0]
    /\ inFlight = {}
    /\ insertAttempts = [i \in 1..MaxSessions |-> 0]
    /\ signal = "none"
    /\ sessionIdOf = [i \in 1..MaxSessions |-> i]

\* A User document as the schema builds it, with a balance.
UserDoc(coins) ==
    [exists |-> TRUE, balance |-> coins, totalFlights |-> 0, flightsWon |-> 0,
     highestMultiplier |-> 1]

NoUser == [UserDoc(0) EXCEPT !.exists = FALSE]

NoRequest == [pc |-> "idle"]

\* No record request in the system.
NoRecord ==
    /\ userStats = NoUser
    /\ recordReq = NoRequest
    /\ recordReply = [status |-> "none"]

NoFlush == NoBatch /\ NoRecord

\* No prize calculation in the system.
NoPrize ==
    /\ calculated = FALSE
    /\ distributions = <<>>
    /\ poolReturned = [totalPool |-> 0, contributedAmount |-> 0,
                       shouldDistributePrizes |-> FALSE, participants |-> 0]
    /\ leaderboardAsked = FALSE
    /\ limitAsked = 0
    /\ leaderboardReturned = <<>>

\* cleanupRaceData: drop both tables of the race.
CleanupRaceData(raceId) ==
    /\ raceSessions' = [r \in DOMAIN raceSessions \ {raceId} |-> raceSessions[r]]
    /\ raceParticipants' = [r \in DOMAIN raceParticipants \ {raceId} |-> raceParticipants[r]]

\* =====================================================================
\* RaceManager (src/services/raceManager.js)
\* =====================================================================
\* A suspended async call is a record
\*   kind  "boot" | "start" | "end"
\*   pc    the persistence call it awaits
\*   race  end: the race being ended; start, awaitEnd: the race whose end it awaits
\*   newId start: the raceId it generated
\*   ret   end: who awaits it: NoRace (nobody), BootRet (initializeFromDatabase)
\*         or the newId of the awaiting startNewRace
\*   at    end: the actualEndTime Race.complete stamped;
\*         boot: the clock when it computed the remaining time
\*   dist  end: the prize distribution computed after the flush
\*   lb    end: the users of the leaderboard finalizeRace returned
\*   pool  end: the prize pool finalizeRace returned
\*   bulkError end: RacePrize.batchCreatePrizes threw
\*   batch end: the GameSession documents saveRaceDataToDB inserts
Task(kind, pc, race, newId, ret) ==
    [kind |-> kind, pc |-> pc, race |-> race, newId |-> newId, ret |-> ret,
     at |-> NoRace, dist |-> <<>>, lb |-> {}, batch |-> <<>>,
     pool |-> [totalPool |-> 0, contributedAmount |-> 0], bulkError |-> FALSE]

\* A Race document as startNewRace builds it: the schema defaults of the fields
\* written at the end of the race.
NewRaceDoc ==
    [status |-> "active", actualEndTime |-> NoRace, finalizedAt |-> NoRace,
     finalPrizePool |-> 0, finalContribution |-> 0, totalParticipants |-> 0]

\* obj.name, undefined when the object has no such property.
Field(obj, name) == IF name \in DOMAIN obj THEN obj[name] ELSE Undefined

\* raceSchema.methods.complete(prizePool, participantCount) at time `clock`,
\* up to its save.  An object argument is truthy.
Complete(doc, prizePool, participantCount, clock) ==
    [doc EXCEPT !.status = "completed",
                !.actualEndTime = clock,
                !.finalizedAt = clock,
                !.finalPrizePool = Field(prizePool, "totalPool"),
                !.finalContribution = Field(prizePool, "contributedAmount"),
                !.totalParticipants = IF participantCount = Undefined THEN 0
                                      ELSE participantCount]

\* The Number field a saved document shows for the value v: a field set to
\* undefined is unset by the save, and reads back as absent from the raw
\* document or as the schema default 0 from a hydrated one.
SavedNumber(v) == IF v = Undefined THEN {Undefined, 0} ELSE {v}

Timer(kind, race, due) == [kind |-> kind, race |-> race, due |-> due]

\* The part of the state the synchronous call chains of the manager change.
MgrState == [tasks |-> tasks, cur |-> curRace, timers |-> timers, flushed |-> flushed]

HasSessions(raceId) ==
    raceId \in DOMAIN raceSessions /\ Len(raceSessions[raceId]) > 0

\* finalizeRace after `await this.saveRaceDataToDB(raceId)`: schedule the cleanup
\* and return; endRaceById goes on to calculatePrizeDistribution and suspends
\* at Race.findOne, of distributePrizes when there are prizes, else its own.
AfterFlush(st, t) ==
    LET dist == CalculatePrizeDistribution(t.race)
        t1 == [t EXCEPT !.dist = dist, !.pc = IF dist # <<>> THEN "distFind" ELSE "find"]
    IN  [st EXCEPT !.flushed = @ \cup {t.race},
                   !.timers = Append(@, Timer("cleanup", t.race, now + RaceCleanupDelay)),
                   !.tasks = @ (+) SetToBag({t1})]

\* endRaceById(raceId) up to its first persistence call: finalizeRace takes the
\* leaderboard and the pool, and saveRaceDataToDB inserts the race's sessions
\* when it has any.
EndRaceById(st, raceId, ret) ==
    LET t == [Task("end", "flush", raceId, NoRace, ret)
                 EXCEPT !.lb = {e.userId : e \in SeqToSet(GetRaceLeaderboard(raceId, 100))},
                        !.pool = LET p == CalculateRacePrizePool(raceId)
                                 IN  [totalPool |-> p.totalPool,
                                      contributedAmount |-> p.contributedAmount]]
        docs == [i \in 1..Len(raceSessions[raceId]) |->
                    RaceDbSession(raceSessions[raceId][i])]
    IN  IF HasSessions(raceId)
        THEN [st EXCEPT !.tasks = @ (+) SetToBag({[t EXCEPT !.batch = docs]})]
        ELSE AfterFlush(st, t)

\* startNewRace() up to its first persistence call: with a current race it awaits
\* endCurrentRace, else it saves the new Race document.
\* `clock` is the value of `new Date()`, from which the raceId is made.
StartNewRaceAt(st, clock) ==
    IF st.cur # NoRace
    THEN EndRaceById([st EXCEPT !.tasks = @ (+) SetToBag({Task("start", "awaitEnd", st.cur, clock, NoRace)})],
                     st.cur, clock)
    ELSE [st EXCEPT !.tasks = @ (+) SetToBag({Task("start", "save", NoRace, clock, NoRace)})]

StartNewRace(st) == StartNewRaceAt(st, now)

\* startRaceTimer(): replace the backup interval.
StartRaceTimer(st) ==
    [st EXCEPT !.timers = Append(SelectSeq(@, LAMBDA x : x.kind # "backup"),
                                 Timer("backup", NoRace, now + RaceDuration))]

\* startFirstRace()
StartFirstRaceAt(st, clock) == StartRaceTimer(StartNewRaceAt(st, clock))

StartFirstRace(st) == StartFirstRaceAt(st, now)

\* The clock values a continuation can read that runs right after a read of
\* `now`: the same second, or the next one when the second has just ended.
ClockReads == {t \in {now, now + 1} : t <= MaxTime}

\* The end of endRaceById(t.race): clear the current race if it is this one, start
\* the next race, and return to the caller that awaits it.  The caller resumes
\* in a microtask of its own; `later` is the clock it reads then.
EndReturn(st, t, later) ==
    LET st1 == [st EXCEPT !.cur = IF @ = t.race THEN NoRace ELSE @]
        st2 == StartNewRace(st1)
        parent == Task("start", "awaitEnd", t.race, t.ret, NoRace)
    IN  IF t.ret = NoRace THEN st2
        ELSE IF t.ret = BootRet
        THEN [StartFirstRaceAt(st2, later) EXCEPT
                !.tasks = @ (-) SetToBag({Task("boot", "awaitEnd", t.race, NoRace, NoRace)})]
        ELSE [st2 EXCEPT !.tasks = (@ (-) SetToBag({parent}))
                                   (+) SetToBag({Task("start", "save", NoRace, t.ret, NoRace)})]

SetMgr(st) ==
    /\ tasks' = st.tasks
    /\ curRace' = st.cur
    /\ timers' = st.timers
    /\ flushed' = st.flushed

Without(t) == [MgrState EXCEPT !.tasks = @ (-) SetToBag({t})]

\* --- timers ---------------------------------------------------------------
\* The pending timer that fires next: the earliest due, the first registered
\* among those.
IsNextTimer(i) ==
    /\ timers[i].due <= now
    /\ \A j \in 1..Len(timers) :
          /\ timers[j].due >= timers[i].due
          /\ (j < i => timers[j].due > timers[i].due)

RemoveAt(s, i) == SubSeq(s, 1, i - 1) \o SubSeq(s, i + 1, Len(s))

NoTimerDue == \A i \in 1..Len(timers) : timers[i].due > now

\* A second passes while persistence calls are pending.
Second ==
    /\ tasks # EmptyBag
    /\ NoTimerDue
    /\ slow < MaxSlow /\ now < MaxTime
    /\ now' = now + 1
    /\ slow' = slow + 1
    /\ UNCHANGED <<notRaceVars, dbVars, mgrVars, cacheVars>>

\* Nothing is pending: time passes until the next timer is due.
Jump ==
    /\ tasks = EmptyBag
    /\ timers # <<>> /\ NoTimerDue
    /\ \E i \in 1..Len(timers) :
          /\ \A j \in 1..Len(timers) : timers[j].due >= timers[i].due
          /\ timers[i].due <= MaxTime
          /\ now' = timers[i].due
    /\ UNCHANGED <<notRaceVars, slow, dbVars, mgrVars, cacheVars>>

\* setTimeout(() => this.initializeFromDatabase(), autoStartDelay) fires:
\* `await Race.getCurrentRace()`.
BootFire ==
    \E i \in 1..Len(timers) :
        /\ IsNextTimer(i) /\ timers[i].kind = "boot"
        /\ timers' = RemoveAt(timers, i)
        /\ tasks' = tasks (+) SetToBag({Task("boot", "query", NoRace, NoRace, NoRace)})
        /\ UNCHANGED <<notRaceVars, clockVars, dbVars, curRace, flushed, cacheVars>>

ActiveRaces == {r \in DOMAIN dbRace : dbRace[r].status = "active"}

\* Race.getCurrentRace() returns: the active race with the latest startTime.
BootQueryDone ==
    \E t \in BagToSet(tasks) :
        /\ t.kind = "boot" /\ t.pc = "query"
        /\ IF ActiveRaces = {}
           THEN /\ SetMgr(StartFirstRace(Without(t)))
                /\ UNCHANGED <<notRaceVars, clockVars, dbVars, cacheVars>>
           ELSE LET r == CHOOSE x \in ActiveRaces : \A y \in ActiveRaces : y <= x
                IN  IF now < r + RaceDuration
                    THEN \* restoreFromDatabase(r): setCurrentRace, then the reads
                         /\ SetMgr([Without(t) EXCEPT
                               !.cur = r,
                               !.tasks = @ (+) SetToBag({[Task("boot", "restore", r, NoRace, NoRace)
                                                            EXCEPT !.at = now]})])
                         /\ SetCurrentRace(r)
                         /\ UNCHANGED <<notRaceVars, clockVars, dbVars, pendingSaves, sessionsLeft, addReturned>>
                    ELSE \* expired: await this.endRaceById(r)
                         /\ SetMgr(EndRaceById(
                               [Without(t) EXCEPT
                                  !.tasks = @ (+) SetToBag({Task("boot", "awaitEnd", r, NoRace, NoRace)})],
                               r, BootRet))
                         /\ UNCHANGED <<notRaceVars, clockVars, dbVars, cacheVars>>

\* restoreRaceParticipants and restoreRecentGameSessions have read the collections:
\* the rows go into the tables; then the end timer and the backup timer are set.
BootRestoreDone ==
    \E t \in BagToSet(tasks) :
        /\ t.kind = "boot" /\ t.pc = "restore"
        /\ LET rows == IF t.race \in DOMAIN dbParticipants
                       THEN dbParticipants[t.race] ELSE <<>>
               old == IF t.race \in DOMAIN raceParticipants
                      THEN raceParticipants[t.race] ELSE <<>>
               merged == [u \in DOMAIN old \cup DOMAIN rows |->
                            IF u \in DOMAIN rows THEN rows[u] ELSE old[u]]
           IN  raceParticipants' =
                 [r \in DOMAIN raceParticipants \cup {t.race} |->
                    IF r = t.race THEN merged ELSE raceParticipants[r]]
        /\ LET docs == SelectSeq(dbSessions, LAMBDA d : d.raceId = t.race)
               old == IF t.race \in DOMAIN raceSessions THEN raceSessions[t.race] ELSE <<>>
           IN  raceSessions' =
                 [r \in DOMAIN raceSessions \cup {t.race} |->
                    IF r = t.race
                    THEN old \o [i \in 1..Len(docs) |-> RestoredSession(docs[i])]
                    ELSE raceSessions[r]]
        /\ SetMgr(StartRaceTimer(
              [Without(t) EXCEPT
                 !.timers = Append(@, Timer("end", t.race,
                                            now + (t.race + RaceDuration - t.at)))]))
        /\ UNCHANGED <<notRaceVars, clockVars, dbVars, currentRaceId, pendingSaves, sessionsLeft, addReturned>>

\* A backup interval that looks at the time left only: with no current race it
\* starts nothing.  A bug the restart claim must detect.
BackupFire_OnlyWhenExpired ==
    \E i \in 1..Len(timers) :
        /\ IsNextTimer(i) /\ timers[i].kind = "backup"
        /\ LET st == [MgrState EXCEPT
                        !.timers = Append(RemoveAt(@, i),
                                          Timer("backup", NoRace, now + RaceDuration))]
           IN  \E st1 \in {IF curRace # NoRace /\ Max(0, curRace + RaceDuration - now) <= 0
                           THEN StartNewRace(st) ELSE st} : SetMgr(st1)
        /\ UNCHANGED <<notRaceVars, clockVars, dbVars, cacheVars>>

\* The backup interval fires: start a new race when there is no current race or
\* the current race has no time left.
BackupFire ==
    \E i \in 1..Len(timers) :
        /\ IsNextTimer(i) /\ timers[i].kind = "backup"
        /\ LET st == [MgrState EXCEPT
                        !.timers = Append(RemoveAt(@, i),
                                          Timer("backup", NoRace, now + RaceDuration))]
           IN  \E st1 \in {IF curRace = NoRace \/ Max(0, curRace + RaceDuration - now) <= 0
                           THEN StartNewRace(st) ELSE st} : SetMgr(st1)
        /\ UNCHANGED <<notRaceVars, clockVars, dbVars, cacheVars>>

\* The end timer of a race fires: endRaceById(raceId).
EndTimerFire ==
    \E i \in 1..Len(timers) :
        /\ IsNextTimer(i) /\ timers[i].kind = "end"
        /\ \E st1 \in {EndRaceById([MgrState EXCEPT !.timers = RemoveAt(@, i)],
                                   timers[i].race, NoRace)} : SetMgr(st1)
        /\ UNCHANGED <<notRaceVars, clockVars, dbVars, cacheVars>>

\* The cleanup timer finalizeRace set fires: cleanupRaceData(raceId).
CleanupFire ==
    \E i \in 1..Len(timers) :
        /\ IsNextTimer(i) /\ timers[i].kind = "cleanup"
        /\ timers' = RemoveAt(timers, i)
        /\ CleanupRaceData(timers[i].race)
        /\ UNCHANGED <<notRaceVars, clockVars, dbVars, curRace, tasks, flushed,
                       currentRaceId, pendingSaves, sessionsLeft, addReturned>>

\* --- the persistence calls of endRaceById return ---------------------------
\* GameSession.insertMany of saveRaceDataToDB returns.
EndFlushDone ==
    \E t \in BagToSet(tasks) :
        /\ t.kind = "end" /\ t.pc = "flush"
        /\ dbSessions' = InsertMany(dbSessions, t.batch)
        /\ SetMgr(AfterFlush(Without(t), [t EXCEPT !.batch = <<>>]))
        /\ UNCHANGED <<notRaceVars, clockVars, dbRace, dbPrizes, dbParticipants, cacheVars>>

\* Race.findOne of distributePrizes returns: one prize record for every winner
\* found in the leaderboard, then RacePrize.batchCreatePrizes.
EndDistFindDone ==
    \E t \in BagToSet(tasks) :
        /\ t.kind = "end" /\ t.pc = "distFind"
        /\ LET records == SelectSeq(t.dist, LAMBDA x : x.userId \in t.lb)
               t1 == IF t.race \in DOMAIN dbRace /\ records # <<>>
                     THEN [t EXCEPT !.pc = "distCreate", !.dist = records]
                     ELSE [t EXCEPT !.pc = "find", !.dist = <<>>]
           IN  SetMgr([Without(t) EXCEPT !.tasks = @ (+) SetToBag({t1})])
        /\ UNCHANGED <<notRaceVars, clockVars, dbVars, cacheVars>>

\* The unordered bulk insert: (raceId, userId) is unique, so the records that are
\* new are inserted, and the bulk write throws when one is a duplicate.
BatchCreatePrizes(coll, raceId, records) ==
    LET keys == {<<raceId, records[i].userId>> : i \in 1..Len(records)}
        rec(k) == CHOOSE x \in SeqToSet(records) : x.userId = k[2]
    IN  [k \in DOMAIN coll \cup keys |->
            IF k \in DOMAIN coll THEN coll[k]
            ELSE [rank |-> rec(k).rank, prizeAmount |-> rec(k).prizeAmount,
                  status |-> "pending"]]

\* `raceDoc` is a const of the try block of distributePrizes: the catch block
\* is outside its scope.
RaceDocInCatchScope == FALSE

\* The fallback loop in the catch block of distributePrizes: one
\* `new RacePrize({...}).save()` for every winner found in the leaderboard.  The
\* document literal reads raceDoc.startTime: out of scope, the read throws a
\* ReferenceError that the catch of the iteration logs, before the save.
FallbackCreate(coll, raceId, records) ==
    IF RaceDocInCatchScope THEN BatchCreatePrizes(coll, raceId, records) ELSE coll

\* RacePrize.batchCreatePrizes returns or throws.  The bulk write throws when a
\* record is a duplicate, having inserted the others, or when the database
\* rejects the operation as a whole, having inserted nothing.
EndDistCreateDone ==
    \E t \in BagToSet(tasks), rejected \in BOOLEAN :
        /\ t.kind = "end" /\ t.pc = "distCreate"
        /\ LET written == IF rejected THEN dbPrizes
                          ELSE BatchCreatePrizes(dbPrizes, t.race, t.dist)
               threw == \/ rejected
                        \/ \E i \in 1..Len(t.dist) :
                              <<t.race, t.dist[i].userId>> \in DOMAIN dbPrizes
           IN  /\ dbPrizes' = IF threw THEN FallbackCreate(written, t.race, t.dist)
                              ELSE written
               /\ SetMgr([Without(t) EXCEPT
                     !.tasks = @ (+) SetToBag({[t EXCEPT !.pc = "find", !.dist = <<>>,
                                                         !.bulkError = threw]})])
        /\ UNCHANGED <<notRaceVars, clockVars, dbRace, dbSessions, dbParticipants, cacheVars>>

\* Race.findOne of endRaceById returns: raceDoc.complete(...) stamps the document
\* and saves it; without a document the function goes to its end.
EndFindDone ==
    \E t \in BagToSet(tasks) :
        /\ t.kind = "end" /\ t.pc = "find"
        /\ IF t.race \in DOMAIN dbRace
           THEN SetMgr([Without(t) EXCEPT
                   !.tasks = @ (+) SetToBag({[t EXCEPT !.pc = "complete", !.at = now]})])
           ELSE \E later \in ClockReads : SetMgr(EndReturn(Without(t), t, later))
        /\ UNCHANGED <<notRaceVars, clockVars, dbVars, cacheVars>>

\* The save of Race.complete returns.
EndCompleteDone ==
    \E t \in BagToSet(tasks) :
        /\ t.kind = "end" /\ t.pc = "complete"
        /\ LET arg == [leaderboard |-> t.lb, prizePool |-> t.pool,
                        prizeDistribution |-> t.dist]
               doc == Complete(dbRace[t.race], arg, Undefined, t.at)
           IN  \E unset \in SavedNumber(doc.finalPrizePool) :
                  dbRace' = [dbRace EXCEPT ![t.race] =
                               [doc EXCEPT !.finalPrizePool = unset,
                                           !.finalContribution =
                                               IF @ = Undefined THEN unset ELSE @]]
        /\ \E later \in ClockReads : SetMgr(EndReturn(Without(t), t, later))
        /\ UNCHANGED <<notRaceVars, clockVars, dbPrizes, dbSessions, dbParticipants, cacheVars>>

\* --- the persistence call of startNewRace returns ---------------------------
\* raceDoc.save(): raceId is unique.  A duplicate throws and startNewRace only
\* logs; else the race is current, published to the cache, and its end timer set.
StartSaveDone ==
    \E t \in BagToSet(tasks) :
        /\ t.kind = "start" /\ t.pc = "save"
        /\ IF t.newId \in DOMAIN dbRace
           THEN /\ SetMgr(Without(t))
                /\ UNCHANGED <<dbRace, currentRaceId, raceSessions, raceParticipants>>
           ELSE /\ dbRace' = [r \in DOMAIN dbRace \cup {t.newId} |->
                                IF r = t.newId
                                THEN NewRaceDoc
                                ELSE dbRace[r]]
                /\ SetMgr([Without(t) EXCEPT
                      !.cur = t.newId,
                      !.timers = Append(@, Timer("end", t.newId, now + RaceDuration))])
                /\ SetCurrentRace(t.newId)
        /\ UNCHANGED <<notRaceVars, clockVars, dbPrizes, dbSessions, dbParticipants, pendingSaves, sessionsLeft, addReturned>>

\* --- a session is recorded --------------------------------------------------
RecordSession ==
    \E u \in Users, d \in SessionInputs :
        /\ AddSession(u, d)
        /\ UNCHANGED <<notRaceVars, clockVars, dbVars, mgrVars>>

\* In the race lifecycle one user records winning sessions.
RecordRaceSession ==
    \E d \in {x \in SessionInputs : x.betAmount = 1 /\ x.isWin} :
        /\ AddSession(1, d)
        /\ UNCHANGED <<notRaceVars, clockVars, dbVars, mgrVars>>

\* =====================================================================
\* POST /race/prizes/:prizeId/claim (src/routes/race.js)
\* =====================================================================
Owner == 1              \* the userId of the prize; any other user is not the owner
ThePrize == 1           \* the _id of the prize; any other id finds nothing

NewClaim == [pc |-> "new", userId |-> 0, prizeId |-> 0, doc |-> "none",
             user |-> 0, status |-> 0]

\* No claim request in the system.
NoClaims ==
    /\ prize = [userId |-> Owner, prizeAmount |-> 0, status |-> "pending"]
    /\ balance = 0
    /\ claims = <<>>
    /\ prize0 = [status |-> "pending", balance |-> 0]

Respond(i, code) == claims' = [claims EXCEPT ![i].pc = "done", ![i].status = code]

\* A request arrives: `await RacePrize.findById(prizeId)`.
ClaimRequest(i) ==
    /\ claims[i].pc = "new"
    /\ \E u \in {Owner, Owner + 1}, id \in {ThePrize, ThePrize + 1} :
          claims' = [claims EXCEPT ![i].pc = "findById", ![i].userId = u, ![i].prizeId = id]
    /\ UNCHANGED <<prize, balance, prize0, notClaimVars>>

\* findById returns the document as stored now.  404, 403 and 400 are answered
\* at once; else prize.claim() sets the loaded document to claimed and saves it.
ClaimFindByIdDone(i) ==
    /\ claims[i].pc = "findById"
    /\ IF claims[i].prizeId # ThePrize THEN Respond(i, 404)
       ELSE IF prize.userId # claims[i].userId THEN Respond(i, 403)
       ELSE IF prize.status # "pending" THEN Respond(i, 400)
       ELSE claims' = [claims EXCEPT ![i].pc = "claim", ![i].doc = "claimed"]
    /\ UNCHANGED <<prize, balance, prize0, notClaimVars>>

\* The save of prize.claim() returns: the stored status is set, whatever it was.
\* Then `await User.findOne({ userId })`.
ClaimSaveDone(i) ==
    /\ claims[i].pc = "claim"
    /\ prize' = [prize EXCEPT !.status = claims[i].doc]
    /\ claims' = [claims EXCEPT ![i].pc = "findUser"]
    /\ UNCHANGED <<balance, prize0, notClaimVars>>

\* User.findOne returns the user as stored now: the prize is added to the loaded
\* balance and the user is saved.
ClaimFindUserDone(i) ==
    /\ claims[i].pc = "findUser"
    /\ claims' = [claims EXCEPT ![i].pc = "saveUser", ![i].user = balance + prize.prizeAmount]
    /\ UNCHANGED <<prize, balance, prize0, notClaimVars>>

\* user.save() returns: the stored balance is set to the loaded one; 200.
ClaimSaveUserDone(i) ==
    /\ claims[i].pc = "saveUser"
    /\ balance' = claims[i].user
    /\ Respond(i, 200)
    /\ UNCHANGED <<prize, prize0, notClaimVars>>

\* =====================================================================
\* GET /game/ai-crash-multiplier/:userId/:betAmount (src/unnamed/part_001)
\* =====================================================================
\* `afterCustom` records that the request arrived after another one had been
\* answered with the custom multiplier.
NewGet == [pc |-> "new", betAmount |-> 0, crashMultiplier |-> 0, isUserCustom |-> FALSE,
           afterCustom |-> FALSE]

\* No request for a crash multiplier in the system.
NoGets ==
    /\ userSettings = <<>>
    /\ gets = <<>>

\* The bet amounts of the requests, and the values of generateCrashMultiplier().
BetAmounts == {1, 10}
RandomMultipliers == {1, 2}

\* A request arrives with a valid userId and bet amount:
\* `await UserGameSettings.findOne({ userId })`.
GetRequest(i) ==
    /\ gets[i].pc = "new"
    /\ \E b \in BetAmounts :
          gets' = [gets EXCEPT ![i].pc = "findOne", ![i].betAmount = b,
                               ![i].afterCustom =
                                  \E j \in 1..MaxGets : /\ gets[j].pc = "done"
                                                        /\ gets[j].isUserCustom]
    /\ UNCHANGED <<userSettings, notOverrideVars>>

\* findOne returns the settings as stored now, or rejects.  A complete setting
\* whose amount is the bet amount gives the custom multiplier and is deleted;
\* anything else, and a rejected query (catch dbError), is answered with a
\* random multiplier.
GetFindOneDone(i) ==
    /\ gets[i].pc = "findOne"
    /\ \E dbError \in BOOLEAN :
          IF /\ ~dbError
             /\ userSettings # <<>>
             /\ userSettings[1].nextCrashMultiplier > 0
             /\ userSettings[1].nextBetAmount > 0
             /\ gets[i].betAmount = userSettings[1].nextBetAmount
          THEN gets' = [gets EXCEPT ![i].pc = "deleteOne",
                                    ![i].crashMultiplier = userSettings[1].nextCrashMultiplier,
                                    ![i].isUserCustom = TRUE]
          ELSE \E r \in RandomMultipliers :
                  gets' = [gets EXCEPT ![i].pc = "done", ![i].crashMultiplier = r]
    /\ UNCHANGED <<userSettings, notOverrideVars>>

\* deleteOne returns, and the user has no settings; or it rejects (catch
\* deleteError: the error is logged) and the settings stay.  Either way the
\* custom multiplier is sent.
GetDeleteOneDone(i) ==
    /\ gets[i].pc = "deleteOne"
    /\ \E deleteError \in BOOLEAN :
          userSettings' = IF deleteError THEN userSettings ELSE <<>>
    /\ gets' = [gets EXCEPT ![i].pc = "done"]
    /\ UNCHANGED notOverrideVars

\* =====================================================================
\* GameCountdownManager (src/services/gameCountdownManager.js)
\* =====================================================================
NoTimer == 0            \* null, for a timer handle
NoEndTime == 0          \* null, for countdownEndTime
NoGame == 0             \* null, for gameId
\* No method of the manager was called in the step: a timer ran.
NoCall == [op |-> "none", ret |-> "none"]

\* The step was not a GET /game/countdown request.
NoReply == [status |-> "none"]

defaultConfig ==
    [bettingCountdown |-> 30000, gameCountdown |-> 60000, autoStart |-> TRUE,
     fixedCrashMultiplier |-> 0]

\* The part of the state the synchronous methods of the manager change.  Every
\* step starts with no event emitted and no handler run.
CdState ==
    [phase |-> phase, isCountingDown |-> isCountingDown, round |-> round,
     countdownTimer |-> countdownTimer, phaseTimers |-> phaseTimers, config |-> config,
     countdownEndTime |-> countdownEndTime, gameId |-> gameId,
     configSaveTimer |-> configSaveTimer, hasPendingConfigSave |-> hasPendingConfigSave,
     emitted |-> <<>>, fired |-> NoTimer, called |-> NoCall, reply |-> NoReply]

SetCd(st) ==
    /\ phase' = st.phase
    /\ isCountingDown' = st.isCountingDown
    /\ round' = st.round
    /\ countdownTimer' = st.countdownTimer
    /\ phaseTimers' = st.phaseTimers
    /\ countdownEndTime' = st.countdownEndTime
    /\ gameId' = st.gameId
    /\ called' = st.called
    /\ countdownReply' = st.reply
    /\ config' = st.config
    /\ configSaveTimer' = st.configSaveTimer
    /\ hasPendingConfigSave' = st.hasPendingConfigSave
    /\ emitted' = st.emitted
    /\ fired' = st.fired

\* clearTimers without the clearTimeout of the phase timer: a bug the phase
\* claim must detect.
clearTimers_KeepPhaseTimer(st) ==
    [st EXCEPT !.countdownTimer = NoTimer, !.configSaveTimer = "null"]

\* clearTimers: the phase timer and the config save timer.
clearTimers(st) ==
    [st EXCEPT !.phaseTimers = {t \in @ : t.id # st.countdownTimer},
               !.countdownTimer = NoTimer,
               !.configSaveTimer = "null"]

\* setTimeout(handler, delay) for a phase: a handle no pending timer and no
\* field holds.
SetPhaseTimer(st, handler, delay) ==
    LET used == {t.id : t \in st.phaseTimers} \cup {st.countdownTimer, NoTimer}
        id == CHOOSE i \in 1..(Cardinality(used) + 1) :
                 i \notin used /\ \A j \in 1..(i - 1) : j \in used
    IN  [st EXCEPT !.countdownTimer = id,
                   !.phaseTimers = @ \cup {[id |-> id, handler |-> handler,
                                            delay |-> delay]}]

\* A round that takes over the gameId of the round before: a bug the round
\* claim must detect.
NewGameId_Reused(st) == st.gameId

\* The gameId of a new round: `game_${Date.now()}_${random}`, an id no earlier
\* round has; the number of the round stands for it.
NewGameId(st) == st.round + 1

startBettingCountdown(st) ==
    LET st1 == clearTimers(st)
        st2 == [st1 EXCEPT !.round = @ + 1, !.phase = "betting", !.isCountingDown = TRUE,
                           !.countdownEndTime = st1.config.bettingCountdown,
                           !.gameId = NewGameId(st1),
                           !.emitted = Append(@, "bettingCountdownStarted")]
    IN  SetPhaseTimer(st2, "onBettingCountdownFinished", st2.config.bettingCountdown)

startGameCountdown(st) ==
    LET st1 == clearTimers(st)
        st2 == [st1 EXCEPT !.phase = "gaming", !.isCountingDown = TRUE,
                           !.countdownEndTime = st1.config.gameCountdown,
                           !.emitted = Append(@, "gameCountdownStarted")]
    IN  SetPhaseTimer(st2, "onGameCountdownFinished", st2.config.gameCountdown)

onBettingCountdownFinished(st) ==
    LET st1 == [st EXCEPT !.emitted = Append(@, "bettingPhaseEnded")]
    IN  IF st1.config.autoStart THEN startGameCountdown(st1)
        ELSE [st1 EXCEPT !.isCountingDown = FALSE, !.phase = "idle"]

onGameCountdownFinished(st) ==
    LET st1 == [st EXCEPT !.emitted = Append(@, "gamePhaseEnded")]
    IN  IF st1.config.autoStart THEN startBettingCountdown(st1)
        ELSE [st1 EXCEPT !.isCountingDown = FALSE, !.phase = "idle"]

\* What a method of the manager returned to its caller: "true", "false",
\* "undefined", or "Error" when it threw.
Returns(st, op, ret) == [st EXCEPT !.called = [op |-> op, ret |-> ret]]

\* startCountdown() and startBettingPhase() have the same body.
startCountdown(st) ==
    IF st.isCountingDown THEN Returns(st, "startCountdown", "false")
    ELSE Returns(startBettingCountdown(st), "startCountdown", "true")

startGamePhase(st) ==
    IF st.isCountingDown /\ st.phase # "betting" THEN Returns(st, "startGamePhase", "false")
    ELSE Returns(startGameCountdown(st), "startGamePhase", "true")

\* A stopCountdown that leaves the phase timer pending: a bug the stop claim
\* must detect.
stopCountdown_KeepsTimer(st) ==
    IF ~st.isCountingDown THEN Returns(st, "stopCountdown", "false")
    ELSE Returns([st EXCEPT !.isCountingDown = FALSE, !.phase = "idle",
                            !.countdownEndTime = NoEndTime,
                            !.emitted = Append(@, "countdownStopped")],
                 "stopCountdown", "true")

stopCountdown(st) ==
    IF ~st.isCountingDown THEN Returns(st, "stopCountdown", "false")
    ELSE Returns([clearTimers(st) EXCEPT !.isCountingDown = FALSE, !.phase = "idle",
                                         !.countdownEndTime = NoEndTime,
                                         !.emitted = Append(@, "countdownStopped")],
                 "stopCountdown", "true")

\* getCountdownStatus(): the fields that do not depend on Date.now().
getCountdownStatus(st) ==
    IF ~st.isCountingDown
    THEN [isCountingDown |-> FALSE, phase |-> st.phase, gameId |-> st.gameId,
          round |-> st.round]
    ELSE [isCountingDown |-> TRUE, phase |-> st.phase, gameId |-> st.gameId,
          round |-> st.round, countdownEndTime |-> st.countdownEndTime,
          totalDuration |-> IF st.phase = "betting" THEN st.config.bettingCountdown
                            ELSE st.config.gameCountdown]

\* GET /game/countdown.  The manager has no method getCurrentGameCrashMultiplier
\* (and no field currentGameCrashMultiplier): with fixedCrashMultiplier <= 0 the
\* call throws a TypeError, which the handler's catch answers with status 500.
GetCountdownRoute(st) ==
    LET countdownStatus == getCountdownStatus(st)
        finalCrashMultiplier == st.config.fixedCrashMultiplier
    IN  IF finalCrashMultiplier <= 0
        THEN [status |-> "500"]
        ELSE [status |-> "200", phase |-> countdownStatus.phase,
              isCountingDown |-> countdownStatus.isCountingDown,
              gameId |-> countdownStatus.gameId, round |-> countdownStatus.round,
              fixedCrashMultiplier |-> finalCrashMultiplier]

scheduleConfigSave(st) ==
    [st EXCEPT !.hasPendingConfigSave = TRUE, !.configSaveTimer = "pending"]

\* The arguments of updateConfig the model draws from: a record holds the keys
\* the caller passes.
NewConfigs ==
    { [autoStart |-> TRUE], [autoStart |-> FALSE],
      [bettingCountdown |-> 5000], [bettingCountdown |-> 1000],
      [gameCountdown |-> 5000, autoStart |-> FALSE], [gameCountdown |-> 1800001],
      [fixedCrashMultiplier |-> 2], [fixedCrashMultiplier |-> 1],
      [bettingCountdown |-> 0], [fixedCrashMultiplier |-> -1] }

OutOfRange(nc, k) == k \in DOMAIN nc /\ nc[k] # 0 /\ (nc[k] < 5000 \/ nc[k] > 1800000)

\* An updateConfig that moves the deadline of the running phase to the new
\* duration: a bug the deadline claim must detect.
updateConfig_MovesDeadline(st, nc) ==
    LET merged == [k \in DOMAIN st.config |->
                     IF k \in DOMAIN nc THEN nc[k] ELSE st.config[k]]
    IN  Returns([scheduleConfigSave([st EXCEPT !.config = merged])
                    EXCEPT !.emitted = Append(@, "configUpdated"),
                           !.countdownEndTime =
                               IF st.phase = "betting" THEN merged.bettingCountdown
                               ELSE IF st.phase = "gaming" THEN merged.gameCountdown
                               ELSE @],
                "updateConfig", "undefined")

\* updateConfig(newConfig): an argument out of range throws before any change.
\* (fixedCrashMultiplier < 1.01 is compared in hundredths.)
updateConfig(st, nc) ==
    IF \/ OutOfRange(nc, "bettingCountdown")
       \/ OutOfRange(nc, "gameCountdown")
       \/ /\ "fixedCrashMultiplier" \in DOMAIN nc
          /\ nc.fixedCrashMultiplier > 0
          /\ (nc.fixedCrashMultiplier * 100 < 101 \/ nc.fixedCrashMultiplier > 1000)
    THEN Returns(st, "updateConfig", "Error")
    ELSE LET merged == [k \in DOMAIN st.config |->
                          IF k \in DOMAIN nc THEN nc[k] ELSE st.config[k]]
         IN  Returns([scheduleConfigSave([st EXCEPT !.config = merged])
                         EXCEPT !.emitted = Append(@, "configUpdated")],
                     "updateConfig", "undefined")

\* --- the calls the routes make -------------------------------------------
\* A call that starts a round is taken while rounds are left.
StartCountdown ==
    /\ round < MaxRound
    /\ SetCd(startCountdown(CdState))
    /\ UNCHANGED <<saveImmediate, configFile, notCountdownVars>>

StartGamePhase ==
    /\ SetCd(startGamePhase(CdState))
    /\ UNCHANGED <<saveImmediate, configFile, notCountdownVars>>

StopCountdown ==
    /\ SetCd(stopCountdown(CdState))
    /\ UNCHANGED <<saveImmediate, configFile, notCountdownVars>>

UpdateConfig ==
    \E nc \in NewConfigs :
        /\ SetCd(updateConfig(CdState, nc))
        /\ UNCHANGED <<saveImmediate, configFile, notCountdownVars>>

\* --- the timers ------------------------------------------------------------
\* A pending phase timer fires and its handler runs.
PhaseTimerFire ==
    \E t \in phaseTimers :
        LET st == [CdState EXCEPT !.phaseTimers = @ \ {t}, !.fired = t.id]
        IN  /\ (t.handler = "onGameCountdownFinished" /\ config.autoStart) => round < MaxRound
            /\ IF t.handler = "onBettingCountdownFinished"
               THEN SetCd(onBettingCountdownFinished(st))
               ELSE SetCd(onGameCountdownFinished(st))
            /\ UNCHANGED <<saveImmediate, configFile, notCountdownVars>>

\* The config save timer fires: saveConfigAsync queues the write when a save is
\* pending.
ConfigSaveTimerFire ==
    /\ configSaveTimer = "pending"
    /\ SetCd([CdState EXCEPT !.configSaveTimer = "fired"])
    /\ saveImmediate' = (saveImmediate \/ hasPendingConfigSave)
    /\ UNCHANGED <<configFile, notCountdownVars>>

\* The setImmediate of saveConfigAsync runs: the config is written.
ConfigSaveImmediate ==
    /\ saveImmediate
    /\ saveImmediate' = FALSE
    /\ configFile' = config
    /\ SetCd([CdState EXCEPT !.hasPendingConfigSave = FALSE, !.configSaveTimer = "null"])
    /\ UNCHANGED notCountdownVars

\* No countdown manager in the system.
NoCountdown ==
    /\ phase = "idle" /\ isCountingDown = FALSE /\ round = 0
    /\ countdownTimer = NoTimer /\ phaseTimers = {}
    /\ countdownEndTime = NoEndTime /\ gameId = NoGame /\ called = NoCall
    /\ countdownReply = NoReply
    /\ config = defaultConfig
    /\ configSaveTimer = "null" /\ hasPendingConfigSave = FALSE /\ saveImmediate = FALSE
    /\ configFile = defaultConfig
    /\ emitted = <<>> /\ fired = NoTimer
    /\ lastEvent = "none"

\* =====================================================================
\* The race lifecycle: boot, the timers, and the async bodies
\* =====================================================================
MaxRaceSessions == 1

EmptyCache ==
    /\ currentRaceId = NoRace
    /\ raceSessions = <<>>
    /\ raceParticipants = <<>>
    /\ pendingSaves = <<>>

\* The race manager and the cache of a process that runs no race.
RaceIdle ==
    /\ now = 0 /\ slow = 0
    /\ dbRace = <<>> /\ dbPrizes = <<>> /\ dbSessions = <<>> /\ dbParticipants = <<>>
    /\ curRace = NoRace /\ timers = <<>> /\ tasks = EmptyBag /\ flushed = {}
    /\ EmptyCache
    /\ sessionsLeft = 0
    /\ addReturned = "none"

\* The RaceParticipant rows an earlier process has synced for a race: three
\* users, two of them with the same contribution.
PersistedRows ==
    [u \in 1..3 |->
       [totalBetAmount |-> 1, totalWinAmount |-> IF u = 1 THEN 3 ELSE 5,
        netProfit |-> IF u = 1 THEN 2 ELSE 4,
        contributionToPool |-> IF u = 1 THEN 3 ELSE 5, sessionCount |-> 1]]

\* The process starts: the constructor has set the boot timer.  The Race
\* collection holds no race (NoRace) or the active race that started at one
\* of `starts`, still running (with or without synced participants) or
\* expired.
InitRaceWith(starts) ==
    /\ now = BootTime
    /\ slow = 0
    /\ \E r \in starts :
          dbRace = IF r = NoRace THEN <<>>
                   ELSE [x \in {r} |-> NewRaceDoc]
    /\ dbParticipants \in
          {<<>>} \cup {(r :> PersistedRows) : r \in {x \in ActiveRaces : now < x + RaceDuration}}
    /\ dbPrizes = <<>>
    /\ dbSessions = <<>>
    /\ curRace = NoRace
    /\ timers = <<Timer("boot", NoRace, BootTime)>>
    /\ tasks = EmptyBag
    /\ flushed = {}
    /\ EmptyCache
    /\ sessionsLeft = MaxRaceSessions
    /\ addReturned = "none"
    /\ NoClaims
    /\ NoGets
    /\ NoCountdown
    /\ NoPrize
    /\ NoFlush

\* A first start, or a restart while the active race is still running.
InitRace == InitRaceWith({NoRace, BootTime - 1})

\* A restart after the active race has expired.
InitExpired == InitRaceWith({0})

NextRace ==
    \/ Second
    \/ Jump
    \/ BootFire
    \/ BootQueryDone
    \/ BootRestoreDone
    \/ BackupFire
    \/ EndTimerFire
    \/ CleanupFire
    \/ EndFlushDone
    \/ EndDistFindDone
    \/ EndDistCreateDone
    \/ EndFindDone
    \/ EndCompleteDone
    \/ StartSaveDone
    \/ RecordRaceSession

SpecRace == InitRace /\ [][NextRace]_vars

\* The restart after an expired race, followed until the races it starts are
\* about to end.
ExpiredMaxTime == BootTime + RaceDuration

NextExpired ==
    \/ (Second /\ now' <= ExpiredMaxTime)
    \/ (Jump /\ now' <= ExpiredMaxTime)
    \/ BootFire
    \/ BootQueryDone
    \/ CleanupFire
    \/ EndFindDone
    \/ EndCompleteDone
    \/ StartSaveDone
    \/ RecordRaceSession

SpecExpired == InitExpired /\ [][NextExpired]_vars

\* =====================================================================
\* The claim requests
\* =====================================================================
\* The prizes and balances the model draws from.
PrizeAmounts == {12500, 25000}
Balances == {0, 100}

\* A pending or claimed prize of the owner, and requests still to arrive.
InitClaim ==
    /\ \E a \in PrizeAmounts, st \in {"pending", "claimed"}, b \in Balances :
          /\ prize = [userId |-> Owner, prizeAmount |-> a, status |-> st]
          /\ balance = b
          /\ prize0 = [status |-> st, balance |-> b]
    /\ claims = [i \in 1..MaxClaims |-> NewClaim]
    /\ RaceIdle
    /\ NoGets
    /\ NoCountdown
    /\ NoPrize
    /\ NoFlush

NextClaim ==
    \E i \in 1..MaxClaims :
        \/ ClaimRequest(i)
        \/ ClaimFindByIdDone(i)
        \/ ClaimSaveDone(i)
        \/ ClaimFindUserDone(i)
        \/ ClaimSaveUserDone(i)

SpecClaim == InitClaim /\ [][NextClaim]_vars

\* =====================================================================
\* The crash multiplier requests
\* =====================================================================
\* The user has no settings, the settings findOrCreate creates, or an override.
InitOverride ==
    /\ userSettings \in
          {<<>>, <<[nextBetAmount |-> 10, nextCrashMultiplier |-> 0]>>}
          \cup {<<[nextBetAmount |-> b, nextCrashMultiplier |-> 5]>> : b \in BetAmounts}
    /\ gets = [i \in 1..MaxGets |-> NewGet]
    /\ RaceIdle
    /\ NoClaims
    /\ NoCountdown
    /\ NoPrize
    /\ NoFlush

NextOverride ==
    \E i \in 1..MaxGets :
        \/ GetRequest(i)
        \/ GetFindOneDone(i)
        \/ GetDeleteOneDone(i)

SpecOverride == InitOverride /\ [][NextOverride]_vars

\* =====================================================================
\* The round orchestrator
\* =====================================================================
\* The constructor has loaded the config and, with autoStart, started the first
\* betting countdown.
InitCountdownManager ==
    /\ \E a \in BOOLEAN :
          LET idle == [phase |-> "idle", isCountingDown |-> FALSE, round |-> 0,
                       countdownTimer |-> NoTimer, phaseTimers |-> {},
                       countdownEndTime |-> NoEndTime, gameId |-> NoGame,
                       config |-> [defaultConfig EXCEPT !.autoStart = a],
                       configSaveTimer |-> "null", hasPendingConfigSave |-> FALSE,
                       emitted |-> <<>>, fired |-> NoTimer, called |-> NoCall, reply |-> NoReply]
              st == IF a THEN startBettingCountdown(idle) ELSE idle
          IN  /\ phase = st.phase /\ isCountingDown = st.isCountingDown
              /\ round = st.round /\ countdownTimer = st.countdownTimer
              /\ phaseTimers = st.phaseTimers /\ config = st.config
              /\ countdownEndTime = st.countdownEndTime /\ gameId = st.gameId
              /\ called = st.called
              /\ countdownReply = st.reply
              /\ configSaveTimer = st.configSaveTimer
              /\ hasPendingConfigSave = st.hasPendingConfigSave
              /\ emitted = st.emitted /\ fired = st.fired
              /\ configFile = st.config
    /\ saveImmediate = FALSE

InitCountdown ==
    /\ InitCountdownManager
    /\ lastEvent = "none"
    /\ RaceIdle
    /\ NoClaims
    /\ NoGets
    /\ NoPrize
    /\ NoFlush

NextCountdown ==
    \/ StartCountdown
    \/ StartGamePhase
    \/ StopCountdown
    \/ UpdateConfig
    \/ PhaseTimerFire
    \/ ConfigSaveTimerFire
    \/ ConfigSaveImmediate

SpecCountdown == InitCountdown /\ [][NextCountdown]_vars

\* The crash values PUT /game/countdown/config is called with (its validator
\* admits 0..1000); 1 stands for a value in the band (0, 1.01).
CrashMultipliers == {0, 1, 2}

\* PUT /game/countdown/config with crashMultiplier only.
PutCrashMultiplier ==
    \E crashMultiplier \in CrashMultipliers :
        /\ SetCd(updateConfig(CdState,
                   [fixedCrashMultiplier |->
                      IF crashMultiplier <= 0 THEN 0 ELSE crashMultiplier]))
        /\ UNCHANGED <<saveImmediate, configFile, notCountdownVars>>

\* GET /game/countdown is answered.
GetCountdown ==
    /\ SetCd([CdState EXCEPT !.reply = GetCountdownRoute(CdState)])
    /\ UNCHANGED <<saveImmediate, configFile, notCountdownVars>>

\* The orchestrator, its crash value setting and the status request.
NextStatus ==
    \/ PutCrashMultiplier
    \/ GetCountdown
    \/ PhaseTimerFire
    \/ ConfigSaveTimerFire
    \/ ConfigSaveImmediate

SpecStatus == InitCountdown /\ [][NextStatus]_vars

\* The debounced config save under changes of the crash value, phase
\* transitions and stops.  Timers that are due fire, and a queued setImmediate
\* runs.
NextSave ==
    \/ PutCrashMultiplier
    \/ PhaseTimerFire
    \/ StopCountdown
    \/ StartCountdown
    \/ ConfigSaveTimerFire
    \/ ConfigSaveImmediate

SpecSave ==
    /\ InitCountdown
    /\ [][NextSave]_vars
    /\ WF_vars(PhaseTimerFire)
    /\ WF_vars(ConfigSaveTimerFire)
    /\ WF_vars(ConfigSaveImmediate)

\* =====================================================================
\* The flushes of the session cache and the termination signals
\* =====================================================================
\* The bodies POST /user/:userId/record accepts (betAmount >= 1, multiplier >= 1,
\* winAmount >= 0, isWin boolean): a loss, a win above the bet, a win that pays
\* the bet back, and a loss with an amount paid.
RecordInputs ==
    { [betAmount |-> 1, winAmount |-> 0, isWin |-> FALSE, crashMultiplier |-> 2],
      [betAmount |-> 1, winAmount |-> 3, isWin |-> TRUE, crashMultiplier |-> 3],
      [betAmount |-> 2, winAmount |-> 2, isWin |-> TRUE, crashMultiplier |-> 1],
      [betAmount |-> 1, winAmount |-> 3, isWin |-> FALSE, crashMultiplier |-> 3] }

\* The process has not exited.
Running == signal # "exited"

\* The server accepts requests: server.close() has not been called.
Listening == signal = "none"

\* updateUserRecord hands the body to addSession.
FlushRecord ==
    \E d \in RecordInputs :
        /\ Listening
        /\ AddSession(1, d)
        /\ UNCHANGED <<clockVars, dbVars, mgrVars, flushVars, claimVars, overrideVars,
                       countdownVars, extraVars, prizeVars>>

\* The batch save interval fires: batchSaveToDB takes the queue and awaits the
\* bulk insert of its sessions.
BatchSaveFire ==
    /\ Running
    /\ pendingSaves # <<>>
    /\ inFlight' = inFlight \cup {[path |-> "batch", sessions |-> pendingSaves]}
    /\ pendingSaves' = <<>>
    /\ insertAttempts' =
          [i \in DOMAIN insertAttempts |->
             IF \E k \in 1..Len(pendingSaves) : pendingSaves[k].id = i
             THEN insertAttempts[i] + 1 ELSE insertAttempts[i]]
    /\ UNCHANGED <<clockVars, dbVars, mgrVars, currentRaceId, raceSessions, raceParticipants,
                   sessionsLeft, addReturned, retryCount, signal, recordVars, claimVars,
                   overrideVars, countdownVars, extraVars, prizeVars>>

\* finalizeRace calls saveRaceDataToDB(raceId): the sessions of the race are
\* mapped to documents and their bulk insert is awaited.
SaveRaceDataFire ==
    \E r \in DOMAIN raceSessions :
        /\ Running
        /\ raceSessions[r] # <<>>
        /\ inFlight' = inFlight \cup {[path |-> "race", sessions |-> raceSessions[r]]}
        /\ UNCHANGED <<raceVars, retryCount, insertAttempts, signal, recordVars, claimVars,
                       overrideVars, countdownVars, extraVars, prizeVars>>

\* The documents of an awaited insert.
FlushDocs(f) ==
    [i \in 1..Len(f.sessions) |->
       IF f.path = "batch" THEN BatchDbSession(f.sessions[i])
       ELSE RaceDbSession(f.sessions[i])]

\* batchSaveToDB with `retryCount < 4` in its filter: one re-enqueue more.
Retriable_OneMore(sessions) == SelectSeq(sessions, LAMBDA s : retryCount[s.id] < 4)

\* The sessions batchSaveToDB puts back after a failed insert.
Retriable(sessions) == SelectSeq(sessions, LAMBDA s : retryCount[s.id] < 3)

\* insertMany returns or throws.  It throws on a database error, and when a
\* sessionId is in the collection already or twice among the documents (the
\* other documents are inserted).
\* batchSaveToDB puts the sessions of a failed insert back; saveRaceDataToDB
\* logs the error.
InsertDone ==
    \E f \in inFlight, dbError \in BOOLEAN :
        LET docs == FlushDocs(f)
            dup == Len(InsertMany(dbSessions, docs)) < Len(dbSessions) + Len(docs)
            failed == dbError \/ dup
            back == IF failed /\ f.path = "batch" THEN Retriable(f.sessions) ELSE <<>>
        IN  /\ Running
            /\ inFlight' = inFlight \ {f}
            /\ dbSessions' = IF dbError THEN dbSessions ELSE InsertMany(dbSessions, docs)
            /\ pendingSaves' = pendingSaves \o back
            /\ retryCount' =
                  [i \in DOMAIN retryCount |->
                     IF \E k \in 1..Len(back) : back[k].id = i
                     THEN retryCount[i] + 1 ELSE retryCount[i]]
            /\ UNCHANGED <<clockVars, dbRace, dbPrizes, dbParticipants, mgrVars, currentRaceId,
                           raceSessions, raceParticipants, sessionsLeft, addReturned,
                           insertAttempts, signal, recordVars, claimVars, overrideVars,
                           countdownVars, extraVars, prizeVars>>

\* destroy(): a pending config save is written at once, the timers are cleared
\* and currentState is reset.
destroy(st) ==
    [clearTimers(st) EXCEPT !.phase = "idle", !.isCountingDown = FALSE,
                            !.countdownEndTime = NoEndTime, !.gameId = NoGame,
                            !.round = 0]

\* The signal handlers of the process: cleanup() of the countdown manager and
\* server.close(); on SIGINT the handler of the database module closes the
\* connection as well and then exits.
Signal ==
    \E sig \in {"SIGTERM", "SIGINT"} :
        /\ signal = "none"
        /\ signal' = IF sig = "SIGINT" THEN "closing" ELSE "SIGTERM"
        /\ SetCd(destroy(CdState))
        /\ configFile' = IF hasPendingConfigSave THEN config ELSE configFile
        /\ UNCHANGED <<saveImmediate, raceVars, retryCount, inFlight, insertAttempts,
                       recordVars, claimVars, overrideVars, extraVars, prizeVars>>

\* mongoose.connection.close() has returned: process.exit(0).
Exit ==
    /\ signal = "closing"
    /\ signal' = "exited"
    /\ UNCHANGED <<raceVars, retryCount, inFlight, insertAttempts, recordVars, claimVars,
                   overrideVars, countdownVars, extraVars, prizeVars>>

\* PUT /game/countdown/config while the server accepts requests.
FlushPutCrashMultiplier ==
    /\ Listening
    /\ PutCrashMultiplier

\* The config save timer and its setImmediate while the process runs.
FlushConfigSaveTimerFire == Running /\ ConfigSaveTimerFire

FlushConfigSaveImmediate == Running /\ ConfigSaveImmediate

\* A request recorded while signals are handled: a win above the bet.
ShutdownRecord ==
    \E d \in {x \in RecordInputs : x.isWin /\ x.winAmount > x.betAmount} :
        /\ Listening
        /\ AddSession(1, d)
        /\ UNCHANGED <<clockVars, dbVars, mgrVars, flushVars, claimVars, overrideVars,
                       countdownVars, extraVars, prizeVars>>

\* Race 1 is current and empty.
FlushCache ==
    /\ now = 0 /\ slow = 0
    /\ dbRace = <<>> /\ dbPrizes = <<>> /\ dbSessions = <<>> /\ dbParticipants = <<>>
    /\ curRace = NoRace /\ timers = <<>> /\ tasks = EmptyBag /\ flushed = {}
    /\ currentRaceId = 1
    /\ raceSessions = (1 :> <<>>)
    /\ raceParticipants = (1 :> <<>>)
    /\ pendingSaves = <<>>
    /\ sessionsLeft = MaxSessions
    /\ addReturned = "none"

\* The cache with race 1 and the countdown manager as constructed.
InitShutdown ==
    /\ InitCountdownManager
    /\ lastEvent = "none"
    /\ FlushCache
    /\ NoClaims
    /\ NoGets
    /\ NoPrize
    /\ NoFlush

NextShutdown ==
    \/ ShutdownRecord
    \/ BatchSaveFire
    \/ InsertDone
    \/ Signal
    \/ Exit
    \/ FlushPutCrashMultiplier
    \/ FlushConfigSaveTimerFire
    \/ FlushConfigSaveImmediate

SpecShutdown == InitShutdown /\ [][NextShutdown]_vars

\* The cache with race 1; no countdown manager.
InitFlush ==
    /\ NoCountdown
    /\ now = 0 /\ slow = 0
    /\ dbRace = <<>> /\ dbPrizes = <<>> /\ dbSessions = <<>> /\ dbParticipants = <<>>
    /\ curRace = NoRace /\ timers = <<>> /\ tasks = EmptyBag /\ flushed = {}
    /\ currentRaceId = 1
    /\ raceSessions = (1 :> <<>>)
    /\ raceParticipants = (1 :> <<>>)
    /\ pendingSaves = <<>>
    /\ sessionsLeft = MaxSessions
    /\ addReturned = "none"
    /\ NoClaims
    /\ NoGets
    /\ NoPrize
    /\ NoFlush

NextFlush ==
    \/ FlushRecord
    \/ BatchSaveFire
    \/ SaveRaceDataFire
    \/ InsertDone

SpecFlush == InitFlush /\ [][NextFlush]_vars

\* =====================================================================
\* The session cache under addSession
\* =====================================================================
\* The session of user u in a table filled before the model starts.
FilledSession(u) == Session(Top1000 + MaxUser + u, u, SessionInputSeq[(u % 3) + 2], 1)

\* The participant table of race 1 after users 1..k have recorded one session each.
RECURSIVE FilledParticipants(_)
FilledParticipants(k) ==
    IF k = 0 THEN <<>>
    ELSE UpdateRaceParticipant(FilledParticipants(k - 1), k, FilledSession(k))

\* No current race; or race 1 is current and its table is empty, one short of
\* the cap, or at the cap.
InitCache ==
    /\ now = 0 /\ slow = 0
    /\ \/ EmptyCache
       \/ \E k \in {0, Top1000 - 1, Top1000} :
             /\ currentRaceId = 1
             /\ raceSessions = (1 :> [i \in 1..k |-> FilledSession(i)])
             /\ raceParticipants = (1 :> FilledParticipants(k))
             /\ pendingSaves = <<>>
    /\ sessionsLeft = MaxSessions
    /\ addReturned = "none"
    /\ dbRace = <<>> /\ dbPrizes = <<>> /\ dbSessions = <<>> /\ dbParticipants = <<>>
    /\ curRace = NoRace /\ timers = <<>> /\ tasks = EmptyBag /\ flushed = {}
    /\ NoClaims
    /\ NoGets
    /\ NoCountdown
    /\ NoPrize
    /\ NoFlush

\* The race ids handed to the cache.
CacheRaces == {1, 2}

\* setCurrentRace(raceId) is called.
CacheSetCurrentRace ==
    \E r \in CacheRaces :
        /\ r # currentRaceId
        /\ SetCurrentRace(r)
        /\ UNCHANGED <<pendingSaves, sessionsLeft, addReturned, notRaceVars, clockVars, dbVars,
                       mgrVars>>

\* cleanupRaceData(raceId) is called.
CacheCleanupRaceData ==
    \E r \in DOMAIN raceSessions :
        /\ CleanupRaceData(r)
        /\ UNCHANGED <<currentRaceId, pendingSaves, sessionsLeft, addReturned, notRaceVars,
                       clockVars,
                       dbVars, mgrVars>>

NextCache ==
    \/ RecordSession
    \/ CacheSetCurrentRace
    \/ CacheCleanupRaceData

SpecCache == InitCache /\ [][NextCache]_vars

\* =====================================================================
\* The prize calculation
\* =====================================================================
\* Contributions to the pool, in hundredths of a coin: none, a small one, and
\* one so large that two of them exceed the minimum pool.
SmallContribution == 7
LargeContribution == 2500001

\* The participant of a table drawn for the calculation: one session of bet 1
\* that has won 100 times the contribution.
Contributor(c) ==
    [totalBetAmount |-> 1, totalWinAmount |-> c, netProfit |-> SessionNetProfit(1, c),
     contributionToPool |-> c, sessionCount |-> 1]

\* Race 1 has ended with up to Top1000 participants, users 1..n: `large` of them
\* with a large contribution, `small` with a small one, the others with none,
\* and the contributions fall or rise with the user id.
InitPrize ==
    /\ \E large, small, none \in 0..Top1000, rising \in BOOLEAN :
          /\ large + small + none <= Top1000
          /\ LET n == large + small + none
                 c(i) == LET k == IF rising THEN n + 1 - i ELSE i
                         IN  IF k <= large THEN LargeContribution
                             ELSE IF k <= large + small THEN SmallContribution ELSE 0
             IN  raceParticipants = (1 :> [u \in 1..n |-> Contributor(c(u))])
    /\ currentRaceId = 1
    /\ raceSessions = (1 :> <<>>)
    /\ pendingSaves = <<>>
    /\ sessionsLeft = 0
    /\ addReturned = "none"
    /\ now = 0 /\ slow = 0
    /\ dbRace = <<>> /\ dbPrizes = <<>> /\ dbSessions = <<>> /\ dbParticipants = <<>>
    /\ curRace = NoRace /\ timers = <<>> /\ tasks = EmptyBag /\ flushed = {}
    /\ NoClaims
    /\ NoGets
    /\ NoCountdown
    /\ NoPrize
    /\ NoFlush

\* calculatePrizeDistribution(1) is called.
CalculatePrizes ==
    /\ ~calculated
    /\ calculated' = TRUE
    /\ distributions' = CalculatePrizeDistribution(1)
    /\ poolReturned' = CalculateRacePrizePool(1)
    /\ UNCHANGED <<leaderboardAsked, limitAsked, leaderboardReturned, notPrizeVars>>

\* The limits getRaceLeaderboard is called with: GET /:raceId/leaderboard passes
\* 1..100 (10 by default), finalizeRace the default 100, the prize calculation
\* and the participant sync 1000.
Limits == {1, 3, 10, 100, 1000}

\* getRaceLeaderboard(1, limit) is called.
LeaderboardRequest ==
    \E limit \in Limits :
        /\ ~leaderboardAsked
        /\ leaderboardAsked' = TRUE
        /\ limitAsked' = limit
        /\ leaderboardReturned' = GetRaceLeaderboard(1, limit)
        /\ UNCHANGED <<calculated, distributions, poolReturned, notPrizeVars>>

NextPrize ==
    \/ CalculatePrizes
    \/ LeaderboardRequest

SpecPrize == InitPrize /\ [][NextPrize]_vars

\* ---------------------------------------------------------------------
\* C1: in every reachable state of the race lifecycle at most one persisted
\* Race record has status 'active'.
C1_AtMostOneActiveRace == Cardinality(ActiveRaces) <= 1

\* C6: the cache's current race changes from a race R to its successor only
\* after a finalizeRace(R) has completed its forced flush.
C6_SetCurrentRaceAfterFlush ==
    [][(currentRaceId # NoRace /\ currentRaceId' # currentRaceId)
          => currentRaceId \in flushed]_vars

\* C7: no race is ended before its endTime = startTime + raceDuration: no
\* endRaceById runs on it earlier, and no Race.complete stamps an earlier
\* actualEndTime.
C7_NoRaceEndsEarly ==
    /\ \A t \in BagToSet(tasks) : t.kind = "end" => now >= t.race + RaceDuration
    /\ \A r \in DOMAIN dbRace :
          dbRace[r].status = "completed" => dbRace[r].actualEndTime >= r + RaceDuration

\* C2: when exactly two requests by the owner have claimed the prize, pending
\* at first, and both are answered, one answer is 200 and the other 400, and the
\* prize is claimed.
OwnerClaims == {i \in 1..MaxClaims : claims[i].pc # "new" /\ claims[i].userId = Owner
                                      /\ claims[i].prizeId = ThePrize}

C2_ExactlyOneClaimSucceeds ==
    (/\ prize0.status = "pending"
     /\ Cardinality(OwnerClaims) = 2
     /\ \A i \in OwnerClaims : claims[i].pc = "done")
    => /\ \E i, j \in OwnerClaims : claims[i].status = 200 /\ claims[j].status = 400
       /\ prize.status = "claimed"

\* C3: when every request that has arrived is answered and the prize, pending at
\* first, is claimed, the owner's balance is the balance before the requests plus
\* prizeAmount: credited once, neither twice nor never.
C3_BalanceCreditedOnce ==
    (/\ prize0.status = "pending"
     /\ prize.status = "claimed"
     /\ \A i \in 1..MaxClaims : claims[i].pc \in {"new", "done"})
    => balance = prize0.balance + prize.prizeAmount

\* C4: of the requests for the crash multiplier at most one is answered with
\* isUserCustom = true: the one stored override is used once.
C4_OverrideConsumedOnce ==
    Cardinality({i \in 1..MaxGets : gets[i].pc = "done" /\ gets[i].isUserCustom}) <= 1

\* C5: in the round orchestrator at most one phase timer is pending and the
\* phase is one of idle, betting, gaming; when the gaming timer has fired the
\* phase is betting with autoStart and idle without; and the handler a step runs
\* is that of the timer the running phase has set, never that of an earlier phase.
C5_PhaseState ==
    /\ Cardinality(phaseTimers) <= 1
    /\ phase \in {"idle", "betting", "gaming"}
    /\ "gamePhaseEnded" \in SeqToSet(emitted) =>
          phase = IF config.autoStart THEN "betting" ELSE "idle"

C5_HandlerOfRunningPhase ==
    fired' # NoTimer =>
        /\ fired' = countdownTimer
        /\ "bettingPhaseEnded" \in SeqToSet(emitted') => phase = "betting"
        /\ "gamePhaseEnded" \in SeqToSet(emitted') => phase = "gaming"

C8_ParticipantsWithinCap ==
    \A r \in DOMAIN raceParticipants : Cardinality(DOMAIN raceParticipants[r]) <= Top1000

\* A race's table is at the cap, and a user whose session the race holds is not
\* in it: addSession has pushed the table over the cap and maintainTop1000 has
\* removed an entry.
C8_Witness ==
    \E r \in DOMAIN raceParticipants :
        /\ r \in DOMAIN raceSessions
        /\ Cardinality(DOMAIN raceParticipants[r]) = Top1000
        /\ \E i \in 1..Len(raceSessions[r]) :
              raceSessions[r][i].userId \notin DOMAIN raceParticipants[r]

\* C9: after any sequence of addSession calls with betAmount >= 1 and
\* winAmount >= 0, every entry of every race's participant table has
\* contributionToPool >= 0, sessionCount >= 1 and netProfit >= 0.
C9_ParticipantSigns ==
    \A r \in DOMAIN raceParticipants : \A u \in DOMAIN raceParticipants[r] :
        /\ raceParticipants[r][u].contributionToPool >= 0
        /\ raceParticipants[r][u].sessionCount >= 1
        /\ raceParticipants[r][u].netProfit >= 0

\* A user has recorded a losing session and a winning one in a race: the loss
\* has added nothing to the net profit.
C9_Witness ==
    \E r \in DOMAIN raceParticipants : \E u \in DOMAIN raceParticipants[r] :
        /\ raceParticipants[r][u].sessionCount >= 2
        /\ raceParticipants[r][u].netProfit >
              raceParticipants[r][u].totalWinAmount - raceParticipants[r][u].totalBetAmount
        /\ raceParticipants[r][u].netProfit > 0

\* C10: for a race with n >= 1 participants and contributedAmount > 0 the
\* distributions have one entry for each rank 1..min(n, 10), for the user at
\* that position of the leaderboard by contributionToPool; ranks 1, 2, 3 get
\* 50%, 25%, 11% of totalPool floored, ranks 4..10 each the floored equal share
\* of 14% of totalPool; and the amounts sum to at most totalPool.
\* (Amounts are in coins, the pool in hundredths of a coin.)
C10_PrizeRules ==
    LET parts == raceParticipants[1]
        n == Cardinality(DOMAIN parts)
        contributed == SumOver([u \in DOMAIN parts |-> parts[u].contributionToPool],
                               DOMAIN parts)
        totalPool == IF contributed > 100 * MinGuarantee THEN contributed
                     ELSE 100 * MinGuarantee
        m == IF n < 10 THEN n ELSE 10
        ahead(u) == {v \in DOMAIN parts :
                       \/ parts[v].contributionToPool > parts[u].contributionToPool
                       \/ /\ parts[v].contributionToPool = parts[u].contributionToPool
                          /\ v < u}
        \* a is x floored, for x = totalPool * pct% / shares, in coins
        IsFloor(a, pct, shares) ==
            /\ a * 10000 * shares <= totalPool * pct
            /\ totalPool * pct < (a + 1) * 10000 * shares
        amount(i) == distributions[i].prizeAmount
    IN  (calculated /\ n >= 1 /\ contributed > 0) =>
          /\ Len(distributions) = m
          /\ \A i \in 1..m :
                /\ distributions[i].rank = i
                /\ distributions[i].userId \in DOMAIN parts
                /\ Cardinality(ahead(distributions[i].userId)) = i - 1
                /\ i = 1 => IsFloor(amount(i), 50, 1)
                /\ i = 2 => IsFloor(amount(i), 25, 1)
                /\ i = 3 => IsFloor(amount(i), 11, 1)
                /\ i >= 4 => IsFloor(amount(i), 14, m - 3)
          /\ 100 * SumOver([i \in 1..m |-> amount(i)], 1..m) <= totalPool

\* Eleven participants whose contributions exceed the minimum pool: ten prizes,
\* and the split of the pool leaves a remainder at rank 1 and at rank 4.
C10_Witness ==
    LET contributed == SumOver([u \in 1..11 |-> raceParticipants[1][u].contributionToPool],
                               1..11)
    IN  /\ calculated
        /\ DOMAIN raceParticipants[1] = 1..11
        /\ Len(distributions) = 10
        /\ contributed > 100 * MinGuarantee
        /\ distributions[1].prizeAmount * 200 < contributed
        /\ distributions[4].prizeAmount * 7 * 10000 < contributed * 14


\* C11: calculateRacePrizePool returns contributedAmount = the sum of
\* contributionToPool over the participants, totalPool = max(contributedAmount,
\* 50000) and shouldDistributePrizes <=> contributedAmount > 0; and the
\* distribution is empty exactly when shouldDistributePrizes is false or there
\* are no participants. (The pool is in hundredths of a coin.)
C11_PrizePool ==
    LET parts == raceParticipants[1]
        contributed == SumOver([u \in DOMAIN parts |-> parts[u].contributionToPool],
                               DOMAIN parts)
    IN  calculated =>
          /\ poolReturned.contributedAmount = contributed
          /\ poolReturned.totalPool = IF contributed >= 100 * MinGuarantee THEN contributed
                                   ELSE 100 * MinGuarantee
          /\ poolReturned.shouldDistributePrizes <=> contributed > 0
          /\ distributions = <<>> <=>
                (~poolReturned.shouldDistributePrizes \/ DOMAIN parts = {})

\* Participants who have contributed nothing: the pool is the minimum guarantee,
\* it is not to be distributed, and the distribution is empty.
C11_Witness ==
    /\ calculated
    /\ Cardinality(DOMAIN raceParticipants[1]) >= 2
    /\ poolReturned.contributedAmount = 0
    /\ poolReturned.totalPool = 100 * MinGuarantee
    /\ ~poolReturned.shouldDistributePrizes
    /\ distributions = <<>>


C13_EvictionInLeaderboardOrder ==
    [][\A u \in Users, d \in SessionInputs :
         LET r == currentRaceId
             s == Session(sessionsLeft, u, d, r)
         IN  (/\ r # NoRace /\ r \in DOMAIN raceSessions
              /\ sessionsLeft' = sessionsLeft - 1
              /\ raceSessions' = [raceSessions EXCEPT ![r] = Append(@, s)])
             => LET q == AccumulateSession(raceParticipants[r], u, s)
                    order == SortBy(DOMAIN q, LAMBDA a, b : ByContribution(q, a, b))
                IN  Cardinality(DOMAIN q) > Top1000 =>
                      /\ DOMAIN raceParticipants'[r] = SeqToSet(Slice(order, Top1000))
                      /\ SeqToSet(Slice(order, 10)) \subseteq DOMAIN raceParticipants'[r]
      ]_vars


\* C14: a request for the crash multiplier that arrives after another request
\* of the user was answered with the override (isUserCustom = true), with no
\* set in between, is answered with isUserCustom = false.
C14_SecondConsumeIsRandom ==
    \A i \in 1..MaxGets :
        (gets[i].pc = "done" /\ gets[i].afterCustom) => ~gets[i].isUserCustom


\* C15: the raceIds handed to the cache's setCurrentRace are strictly
\* increasing: every new current race has a raceId greater than the one it
\* replaces.
C15_RaceIdsIncrease ==
    [][(currentRaceId # NoRace /\ currentRaceId' # currentRaceId)
          => currentRaceId' > currentRaceId]_vars


\* C16: an updateConfig call during a running betting or gaming phase leaves
\* countdownEndTime, as the field and as getCountdownStatus reports it, and the
\* pending phase timer unchanged; and a phase that starts takes its deadline
\* and the delay of its timer from the configuration of that moment.
C16_StatusNow == getCountdownStatus(CdState)

C16_UpdateKeepsDeadline ==
    (called'.op = "updateConfig" /\ isCountingDown) =>
        /\ isCountingDown' /\ phase' = phase
        /\ countdownEndTime' = countdownEndTime
        /\ C16_StatusNow'.countdownEndTime = C16_StatusNow.countdownEndTime
        /\ countdownTimer' = countdownTimer
        /\ phaseTimers' = phaseTimers

C16_PhaseStartUsesConfig ==
    \A e \in SeqToSet(emitted') :
        e \in {"bettingCountdownStarted", "gameCountdownStarted"} =>
            LET d == IF e = "bettingCountdownStarted" THEN config'.bettingCountdown
                     ELSE config'.gameCountdown
            IN  /\ countdownEndTime' = d
                /\ \E t \in phaseTimers' : t.id = countdownTimer' /\ t.delay = d

C17_StopStep ==
    called'.op = "stopCountdown" =>
        IF isCountingDown
        THEN /\ called'.ret = "true"
             /\ phase' = "idle" /\ ~isCountingDown'
             /\ phaseTimers' = {} /\ countdownTimer' = NoTimer
             /\ gameId' = gameId /\ round' = round
        ELSE /\ called'.ret = "false"
             /\ UNCHANGED <<phase, isCountingDown, round, gameId, countdownEndTime,
                            countdownTimer, phaseTimers, config, configSaveTimer,
                            hasPendingConfigSave, saveImmediate, configFile>>

C17_IdleUntilStart ==
    (~isCountingDown /\ called'.op \notin {"startCountdown", "startGamePhase"}) =>
        /\ phase' = phase /\ ~isCountingDown'
        /\ fired' = NoTimer
        /\ \A e \in SeqToSet(emitted') : e \notin {"bettingPhaseEnded", "gamePhaseEnded"}

C17_StopCancels == [][C17_StopStep /\ C17_IdleUntilStart]_vars

\* stopCountdown has stopped the first round: the round and its gameId are
\* kept and no timer is pending.
C17_Witness ==
    /\ called = [op |-> "stopCountdown", ret |-> "true"]
    /\ emitted = <<"countdownStopped">>
    /\ phase = "idle" /\ ~isCountingDown
    /\ round = 1 /\ gameId = 1
    /\ phaseTimers = {}


\* C18: every entry into the betting phase increments round by exactly 1 and
\* assigns a gameId different from the previous one; an entry into the gaming
\* phase changes neither round nor gameId; and round never decreases.
C18_RoundStep ==
    /\ "bettingCountdownStarted" \in SeqToSet(emitted') =>
          /\ phase' = "betting"
          /\ round' = round + 1
          /\ gameId' # gameId /\ gameId' # NoGame
    /\ "gameCountdownStarted" \in SeqToSet(emitted') =>
          /\ phase' = "gaming"
          /\ round' = round
          /\ gameId' = gameId
    /\ (phase' = "betting" /\ phase # "betting") =>
          "bettingCountdownStarted" \in SeqToSet(emitted')
    /\ round' >= round

C18_RoundAndGameId == [][C18_RoundStep]_vars

\* The third round is betting after two full rounds, with the third gameId.
C18_Witness ==
    /\ phase = "betting" /\ round = 3 /\ gameId = 3
    /\ emitted = <<"gamePhaseEnded", "bettingCountdownStarted">>


\* ---------------------------------------------------------------------
\* C19  addSession called while no current race is set returns null and leaves
\*      the cache as it was: the session lists, the participants tables, the
\*      pendingSaves queue and the current race are not modified.
\* ---------------------------------------------------------------------
C19_NullWithoutRace ==
    [][(sessionsLeft' = sessionsLeft - 1 /\ currentRaceId = NoRace)
         => /\ addReturned' = "null"
            /\ UNCHANGED <<currentRaceId, raceSessions, raceParticipants, pendingSaves>>]_vars

\* Two calls were rejected before the first setCurrentRace: the tables and the
\* queue are as the constructor left them.
C19_Witness ==
    /\ addReturned = "null"
    /\ currentRaceId = NoRace
    /\ sessionsLeft = MaxSessions - 2
    /\ pendingSaves = <<>>
    /\ raceSessions = <<>>
    /\ raceParticipants = <<>>


\* ---------------------------------------------------------------------
\* C20  Starting from the default configuration, after any sequence of
\*      updateConfig calls bettingCountdown and gameCountdown lie in
\*      [5000, 1800000] and fixedCrashMultiplier is 0 or lies in [1.01, 1000];
\*      a rejected call leaves the configuration unchanged and emits no
\*      configUpdated event.
\* ---------------------------------------------------------------------
C20_InRange(c) ==
    /\ c.bettingCountdown >= 5000 /\ c.bettingCountdown <= 1800000
    /\ c.gameCountdown >= 5000 /\ c.gameCountdown <= 1800000
    /\ \/ c.fixedCrashMultiplier = 0
       \/ c.fixedCrashMultiplier * 100 >= 101 /\ c.fixedCrashMultiplier <= 1000

C20_RejectedStep ==
    called' = [op |-> "updateConfig", ret |-> "Error"] =>
        /\ config' = config
        /\ "configUpdated" \notin SeqToSet(emitted')

C20_ConfigStaysValid ==
    /\ C20_InRange(config)
    /\ [][C20_InRange(config') /\ C20_RejectedStep]_vars

\* The part of the claim about rejected calls, on its own.
C20_RejectedLeavesConfig == [][C20_RejectedStep]_vars

\* The part of the claim about the ranges, on its own.
C20_ConfigInRange == C20_InRange(config)


\* ---------------------------------------------------------------------
\* C21  GET /game/countdown reports the effective crash value: in random mode
\*      (fixedCrashMultiplier <= 0) the multiplier drawn at the transition into
\*      the gaming phase, a value of at least 1; in fixed mode
\*      (fixedCrashMultiplier > 0) fixedCrashMultiplier.
\* ---------------------------------------------------------------------
C21_ReportsEffectiveCrashValue ==
    countdownReply # NoReply =>
        /\ countdownReply.status = "200"
        /\ IF config.fixedCrashMultiplier > 0
           THEN countdownReply.fixedCrashMultiplier = config.fixedCrashMultiplier
           ELSE countdownReply.fixedCrashMultiplier >= 1

\* The fixed mode half of the claim, on its own.
C21_FixedModeReportsFixedValue ==
    (countdownReply # NoReply /\ config.fixedCrashMultiplier > 0) =>
        /\ countdownReply.status = "200"
        /\ countdownReply.fixedCrashMultiplier = config.fixedCrashMultiplier
        /\ countdownReply.phase = phase /\ countdownReply.round = round


\* ---------------------------------------------------------------------
\* C22  When boot finds a persisted active race R whose endTime is in the
\*      future, then after boot the cache's current race is R, the in-memory
\*      leaderboard of R equals the persisted RaceParticipant rows in leaderboard
\*      order, no new race is created, and endRaceById(R) is scheduled exactly
\*      once, at R's original endTime.
\* ---------------------------------------------------------------------
\* The race the boot is restoring, or NoRace.
C22_Restoring ==
    IF \E t \in BagToSet(tasks) : t.kind = "boot" /\ t.pc = "restore"
    THEN (CHOOSE t \in BagToSet(tasks) : t.kind = "boot" /\ t.pc = "restore").race
    ELSE NoRace

\* The step in which the restore of the boot completes.
C22_BootCompletes == C22_Restoring # NoRace /\ C22_Restoring' = NoRace

C22_CurrentRaceNoNewRace ==
    LET R == C22_Restoring
    IN  /\ currentRaceId' = R /\ curRace' = R
        /\ dbRace' = dbRace /\ ActiveRaces' = {R}
        /\ ~\E t \in BagToSet(tasks') : t.kind = "start"

C22_LeaderboardIsPersisted ==
    \A R \in DOMAIN dbRace :
      R = C22_Restoring =>
        LET rows == IF R \in DOMAIN dbParticipants THEN dbParticipants[R] ELSE <<>>
            lb == GetRaceLeaderboard(R, 1000)'
        IN
        /\ {lb[i].userId : i \in 1..Len(lb)} = DOMAIN rows
        /\ \A i \in 1..Len(lb) :
              /\ lb[i].contributionToPool = rows[lb[i].userId].contributionToPool
              /\ \A j \in 1..Len(lb) :
                    i < j => \/ lb[i].contributionToPool > lb[j].contributionToPool
                             \/ /\ lb[i].contributionToPool = lb[j].contributionToPool
                                /\ lb[i].userId < lb[j].userId

C22_EndTimerAtEndTime ==
    LET R == C22_Restoring
        ends == {i \in 1..Len(timers') : timers'[i].kind = "end" /\ timers'[i].race = R}
    IN  /\ Cardinality(ends) = 1
        /\ \A i \in ends : timers'[i].due = R + RaceDuration

C22_BootRestoresRace ==
    [][C22_BootCompletes =>
         /\ C22_CurrentRaceNoNewRace
         /\ C22_LeaderboardIsPersisted
         /\ C22_EndTimerAtEndTime]_vars

\* The parts of the claim, each on its own.
C22_RestoresCurrentRace == [][C22_BootCompletes => C22_CurrentRaceNoNewRace]_vars
C22_RestoresLeaderboard == [][C22_BootCompletes => C22_LeaderboardIsPersisted]_vars
C22_SchedulesEndAtEndTime == [][C22_BootCompletes => C22_EndTimerAtEndTime]_vars
\* The leaderboard when no session was recorded while the restore was reading.
C22_RestoresLeaderboardWithoutSession ==
    [][(C22_BootCompletes /\ \A r \in DOMAIN raceParticipants : raceParticipants[r] = <<>>)
         => C22_LeaderboardIsPersisted]_vars
\* The end timer when the reads of the restore take no time.
C22_SchedulesEndWithoutDelay ==
    [][(C22_BootCompletes /\ slow = 0) => C22_EndTimerAtEndTime]_vars


\* ---------------------------------------------------------------------
\* C23  Every GameSession record built for persistence by either flush path
\*      (batchSaveToDB or saveRaceDataToDB) from a session the record endpoint
\*      accepted satisfies isWin <=> cashOutMultiplier > 0 <=> profit > 0.
\* ---------------------------------------------------------------------
C23_Consistent(doc) ==
    /\ doc.isWin <=> doc.cashOutMultiplier > 0
    /\ doc.cashOutMultiplier > 0 <=> doc.profit > 0

C23_RecordsConsistent ==
    \A f \in inFlight : \A i \in 1..Len(f.sessions) : C23_Consistent(FlushDocs(f)[i])

\* The first equivalence of the claim, on its own.
C23_WinIffCashOut ==
    \A f \in inFlight : \A i \in 1..Len(f.sessions) :
        FlushDocs(f)[i].isWin <=> FlushDocs(f)[i].cashOutMultiplier > 0


\* ---------------------------------------------------------------------
\* C24  After an accepted updateConfig the configuration on disk eventually
\*      equals the configuration in memory, whatever phase transitions or
\*      stopCountdown calls happen in the meantime.
\* ---------------------------------------------------------------------
C24_ConfigEventuallySaved ==
    (called = [op |-> "updateConfig", ret |-> "undefined"]) ~> (configFile = config)

\* The same unless a pending save has lost its timer.
C24_SavedUnlessTimerCleared ==
    (called = [op |-> "updateConfig", ret |-> "undefined"]) ~>
        \/ configFile = config
        \/ hasPendingConfigSave /\ configSaveTimer = "null" /\ ~saveImmediate

\* A pending save has a timer or a queued write.
C24_PendingSaveHasTimer ==
    hasPendingConfigSave => (configSaveTimer # "null" \/ saveImmediate)


\* ---------------------------------------------------------------------
\* C25  On a termination signal, after a pending config save has been written,
\*      the pendingSaves queue of the session cache is drained before the
\*      process stops: no session is still queued when the process exits.
\* ---------------------------------------------------------------------
C25_QueueDrainedAtExit == signal = "exited" => pendingSaves = <<>>

\* The config half: once a signal has been handled the file holds the config.
C25_ConfigSavedOnSignal == signal # "none" => configFile = config

\* The handlers leave the queue and the awaited inserts as they are.
C25_SignalLeavesQueue ==
    [][signal' # signal => (pendingSaves' = pendingSaves /\ inFlight' = inFlight)]_vars


\* ---------------------------------------------------------------------
\* C26  When boot finds a persisted active race whose endTime has passed, that
\*      race is ended and then exactly one new race is started: one new Race
\*      record is persisted as active, and setCurrentRace is called for one
\*      new raceId.
\* ---------------------------------------------------------------------
\* The races started since the boot found the expired race 0, while the first
\* of them cannot have reached its endTime.
C26_NewRaces == {r \in DOMAIN dbRace : r # 0}

C26_BootWindow == 0 \in DOMAIN dbRace /\ now < BootTime + RaceDuration

C26_OneNewRaceAfterExpired ==
    C26_BootWindow =>
        /\ Cardinality(C26_NewRaces) <= 1
        /\ Cardinality(DOMAIN raceSessions \ {0}) <= 1
        /\ C26_NewRaces # {} => dbRace[0].status = "completed"
        /\ \A r \in C26_NewRaces : dbRace[r].status = "active"

\* The expired race is completed before a new race is persisted.
C26_ExpiredRaceEndedFirst ==
    (C26_BootWindow /\ C26_NewRaces # {}) => dbRace[0].status = "completed"


\* ---------------------------------------------------------------------
\* C27  After endRaceById(R) has completed for a race with a persisted record,
\*      the record has status 'completed', actualEndTime and finalizedAt set,
\*      finalPrizePool = the totalPool computed at finalization,
\*      finalContribution = the contributedAmount computed at finalization,
\*      and totalParticipants = the number of participants of R.
\* ---------------------------------------------------------------------
\* The endRaceById calls whose Race.complete is saved in this step.
C27_Completing ==
    {t \in BagToSet(tasks) : /\ t.kind = "end" /\ t.pc = "complete"
                             /\ dbRace'[t.race] # dbRace[t.race]
                             /\ CopiesIn(t, tasks') < CopiesIn(t, tasks)}

C27_RecordHoldsFinalData ==
    [][\A t \in C27_Completing :
          LET doc == dbRace'[t.race]
          IN  /\ doc.status = "completed"
              /\ doc.actualEndTime # NoRace
              /\ doc.finalizedAt # NoRace
              /\ doc.finalPrizePool = t.pool.totalPool
              /\ doc.finalContribution = t.pool.contributedAmount
              /\ doc.totalParticipants = Cardinality(t.lb)]_vars

\* The status and the two dates are written.
C27_RecordIsStamped ==
    [][\A t \in C27_Completing :
          LET doc == dbRace'[t.race]
          IN  /\ doc.status = "completed"
              /\ doc.actualEndTime = t.at /\ t.at # NoRace
              /\ doc.finalizedAt = t.at]_vars

\* The pool and the participants are never written.
C27_TotalsNeverWritten ==
    [][\A t \in C27_Completing :
          LET doc == dbRace'[t.race]
          IN  /\ doc.finalPrizePool \in {Undefined, 0}
              /\ doc.finalContribution \in {Undefined, 0}
              /\ doc.totalParticipants = 0]_vars

\* A race with participants is completed with totals that are not its own.
C27_ParticipantsNotCounted ==
    [][\A t \in C27_Completing :
          t.lb # {} =>
              LET doc == dbRace'[t.race]
              IN  /\ doc.finalPrizePool # t.pool.totalPool
                  /\ doc.totalParticipants # Cardinality(t.lb)]_vars


\* ---------------------------------------------------------------------
\* C28  If the bulk creation of prize records in distributePrizes fails, the
\*      fallback creates the records one by one: every winner of the
\*      distribution whose individual insert can succeed ends up with exactly
\*      one pending RacePrize record for (raceId, userId) carrying the
\*      distribution's rank and prizeAmount.
\* ---------------------------------------------------------------------
\* The distributePrizes calls whose bulk creation throws in this step.
C28_After(t) == [t EXCEPT !.pc = "find", !.dist = <<>>, !.bulkError = TRUE]

C28_BulkFailing ==
    {t \in BagToSet(tasks) : /\ t.kind = "end" /\ t.pc = "distCreate"
                             /\ CopiesIn(t, tasks') < CopiesIn(t, tasks)
                             /\ CopiesIn(C28_After(t), tasks') > CopiesIn(C28_After(t), tasks)}

\* An individual insert can succeed when (raceId, userId) has no record yet.
C28_HasPrize(coll, raceId, x) ==
    /\ <<raceId, x.userId>> \in DOMAIN coll
    /\ coll[<<raceId, x.userId>>].rank = x.rank
    /\ coll[<<raceId, x.userId>>].prizeAmount = x.prizeAmount
    /\ coll[<<raceId, x.userId>>].status = "pending"

C28_FallbackCreatesPrizes ==
    [][\A t \in C28_BulkFailing : \A i \in 1..Len(t.dist) :
          <<t.race, t.dist[i].userId>> \notin DOMAIN dbPrizes
              => C28_HasPrize(dbPrizes', t.race, t.dist[i])]_vars

\* When the bulk creation throws, the only records created are those the bulk
\* write itself inserted.
C28_FallbackCreatesNothing ==
    [][\A t \in C28_BulkFailing :
          dbPrizes' \in {dbPrizes, BatchCreatePrizes(dbPrizes, t.race, t.dist)}]_vars

\* When the bulk creation returns, every winner has its record.
C28_BulkCreatesPrizes ==
    [][\A t \in BagToSet(tasks) :
          (/\ t.kind = "end" /\ t.pc = "distCreate"
           /\ CopiesIn(t, tasks') < CopiesIn(t, tasks)
           /\ C28_BulkFailing = {})
              => \A i \in 1..Len(t.dist) : C28_HasPrize(dbPrizes', t.race, t.dist[i])]_vars


\* The batch save and the race flush with one kind of request.
NextRetry == ShutdownRecord \/ BatchSaveFire \/ SaveRaceDataFire \/ InsertDone

SpecRetry == InitFlush /\ [][NextRetry]_vars

\* ---------------------------------------------------------------------
\* C29  batchSaveToDB empties the pendingSaves queue and issues one bulk
\*      insert for the drained sessions; a session whose bulk insert fails is
\*      re-enqueued at most 3 times (at most 4 bulk-insert attempts in total)
\*      and is then dropped; a session of a batch whose insert succeeded is
\*      never re-enqueued.
\* ---------------------------------------------------------------------
\* The batch inserts issued, and those that returned or threw, in this step.
C29_Issued == {f \in inFlight' \ inFlight : f.path = "batch"}

C29_Ended == {f \in inFlight \ inFlight' : f.path = "batch"}

C29_Ids(sessions) == {sessions[k].id : k \in 1..Len(sessions)}

\* The insert of f succeeded: all its documents were appended.
C29_Succeeded(f) == Len(dbSessions') = Len(dbSessions) + Len(f.sessions)

C29_Drain ==
    \A f \in C29_Issued :
        /\ C29_Issued = {f}
        /\ pendingSaves # <<>> /\ f.sessions = pendingSaves
        /\ pendingSaves' = <<>>

C29_Requeue ==
    \A f \in C29_Ended :
        LET back == SubSeq(pendingSaves', Len(pendingSaves) + 1, Len(pendingSaves'))
        IN  /\ SubSeq(pendingSaves', 1, Len(pendingSaves)) = pendingSaves
            /\ C29_Ids(back) \subseteq C29_Ids(f.sessions)
            /\ C29_Succeeded(f) => back = <<>>
            /\ ~C29_Succeeded(f) =>
                  \A i \in C29_Ids(f.sessions) :
                     /\ retryCount[i] < 3 => i \in C29_Ids(back) /\ retryCount'[i] = retryCount[i] + 1
                     /\ retryCount[i] >= 3 => i \notin C29_Ids(back) /\ retryCount'[i] = retryCount[i]

C29_Bounded ==
    \A i \in DOMAIN retryCount :
        /\ retryCount[i] <= 3
        /\ insertAttempts[i] <= 4
        /\ insertAttempts[i] <= retryCount[i] + 1

C29_RetryPolicy == [](C29_Bounded) /\ [][C29_Drain /\ C29_Requeue]_vars

\* A session dropped after its fourth failed insert.
C29_Witness ==
    /\ insertAttempts[1] = 4 /\ retryCount[1] = 3
    /\ 1 \notin C29_Ids(pendingSaves)
    /\ \A f \in inFlight : 1 \notin C29_Ids(f.sessions)
    /\ \A k \in 1..Len(dbSessions) : dbSessions[k].sessionId # 1


\* ---------------------------------------------------------------------
\* C30  After finalizeRace(R), R's in-memory tables stay queryable
\*      (getRaceLeaderboard(R) still returns R's final leaderboard) until the
\*      cleanup timer fires; after it fires raceSessions and raceParticipants
\*      hold no entry for R, and the cleanup removes the tables of R only.
\* ---------------------------------------------------------------------
\* A cleanup timer of race r fires in this step.
C30_CleanupFires(r) ==
    \E i \in 1..Len(timers) :
        /\ timers[i] = Timer("cleanup", r, timers[i].due)
        /\ IsNextTimer(i)
        /\ timers' = RemoveAt(timers, i)

C30_HasTables(r) == r \in DOMAIN raceSessions /\ r \in DOMAIN raceParticipants

\* The tables of a finalized race are dropped by its cleanup timer only, after
\* RaceCleanupDelay, and the leaderboard does not change before.
C30_KeptUntilCleanup(r) ==
    C30_HasTables(r) =>
        IF C30_HasTables(r)'
        THEN GetRaceLeaderboard(r, 100)' = GetRaceLeaderboard(r, 100)
        ELSE C30_CleanupFires(r)

\* The cleanup drops both tables of r, and the tables of no other race.
C30_CleanupDropsOnly(r) ==
    C30_CleanupFires(r) =>
        /\ r \notin DOMAIN raceSessions' /\ r \notin DOMAIN raceParticipants'
        /\ \A q \in (DOMAIN raceSessions \cup DOMAIN raceParticipants) \ {r} :
              /\ q \in DOMAIN raceSessions => q \in DOMAIN raceSessions' /\ raceSessions'[q] = raceSessions[q]
              /\ q \in DOMAIN raceParticipants =>
                    q \in DOMAIN raceParticipants' /\ raceParticipants'[q] = raceParticipants[q]

C30_FinalDataKeptUntilCleanup ==
    [][\A r \in flushed : C30_KeptUntilCleanup(r) /\ C30_CleanupDropsOnly(r)]_vars

\* The tables themselves stay until a cleanup timer of the race fires.
C30_TablesKeptUntilCleanup ==
    [][\A r \in flushed : (C30_HasTables(r) /\ ~C30_HasTables(r)') => C30_CleanupFires(r)]_vars

C30_CleanupDropsOnlyItsRace ==
    [][\A r \in flushed : C30_CleanupDropsOnly(r)]_vars

\* Cleanup timers belong to finalized races, are due no later than
\* RaceCleanupDelay from now, and one is pending while a finalized race has
\* its tables.
C30_CleanupPending ==
    /\ \A i \in 1..Len(timers) :
          timers[i].kind = "cleanup" =>
              timers[i].race \in flushed /\ timers[i].due <= now + RaceCleanupDelay
    /\ \A r \in flushed :
          C30_HasTables(r) =>
              \E i \in 1..Len(timers) : timers[i].kind = "cleanup" /\ timers[i].race = r

\* The timer that drops the tables is the last cleanup timer of the race.
C30_LastTimerDrops ==
    [][\A r \in flushed :
          (C30_HasTables(r) /\ ~C30_HasTables(r)') =>
              \A i \in 1..Len(timers') : ~(timers'[i].kind = "cleanup" /\ timers'[i].race = r)]_vars

\* The leaderboard of a finalized race changes only while the cache still has
\* it as the current race.
C30_ChangesWhileStillCurrent ==
    [][\A r \in flushed :
          (C30_HasTables(r) /\ C30_HasTables(r)'
            /\ GetRaceLeaderboard(r, 100)' # GetRaceLeaderboard(r, 100))
              => currentRaceId = r]_vars


\* ---------------------------------------------------------------------
\* C31  For every raceId the settlement sequence of endRaceById (finalizeRace,
\*      prize distribution, Race.complete, start of the next race) is executed
\*      at most once, under all interleavings of the race's end timer, the
\*      backup interval, the end-current-race step of startNewRace, and boot.
\* ---------------------------------------------------------------------
\* The endRaceById calls for race r that are suspended in the bag.
C31_EndCalls(r, bag) ==
    LET S == {t \in BagToSet(bag) : t.kind = "end" /\ t.race = r}
    IN  SumOver([t \in S |-> CopiesIn(t, bag)], S)

\* endRaceById(r) has been called before: its settlement is running or done.
C31_Ended(r) ==
    \/ C31_EndCalls(r, tasks) > 0
    \/ r \in flushed
    \/ r \in DOMAIN dbRace /\ dbRace[r].status = "completed"

C31_Races == {t.race : t \in {x \in BagToSet(tasks') : x.kind = "end"}}

C31_SettledAtMostOnce ==
    [][\A r \in C31_Races :
          C31_EndCalls(r, tasks') > C31_EndCalls(r, tasks) => ~C31_Ended(r)]_vars

\* One step starts at most one endRaceById call for a race.
C31_OneCallPerStep ==
    [][\A r \in C31_Races :
          C31_EndCalls(r, tasks') <= C31_EndCalls(r, tasks) + 1]_vars


\* =====================================================================
\* The settlement of a race while sessions are recorded
\* =====================================================================
\* Race 1 was started at time 1 by startFirstRace and its time is up: its record
\* is active, it is current in the manager and in the cache, and the backup
\* interval and its end timer are due.
InitSettle ==
    /\ now = 1 + RaceDuration /\ slow = 0
    /\ dbRace = (1 :> NewRaceDoc)
    /\ dbPrizes = <<>> /\ dbSessions = <<>> /\ dbParticipants = <<>>
    /\ curRace = 1
    /\ timers = <<Timer("backup", NoRace, 1 + RaceDuration), Timer("end", 1, 1 + RaceDuration)>>
    /\ tasks = EmptyBag /\ flushed = {}
    /\ currentRaceId = 1
    /\ raceSessions = (1 :> <<>>)
    /\ raceParticipants = (1 :> <<>>)
    /\ pendingSaves = <<>>
    /\ sessionsLeft = MaxSessions
    /\ addReturned = "none"
    /\ NoClaims
    /\ NoGets
    /\ NoCountdown
    /\ NoPrize
    /\ NoFlush

\* Two users record winning sessions.
SettleRecord ==
    \E u \in {x \in Users : x <= Top1000}, d \in {x \in SessionInputs : x.isWin /\ x.betAmount <= 2} :
        /\ AddSession(u, d)
        /\ UNCHANGED <<notRaceVars, clockVars, dbVars, mgrVars>>

\* The settlement of race 1 and the start of the next race, up to the next
\* timer.
NextSettle ==
    \/ BackupFire
    \/ EndTimerFire
    \/ EndFlushDone
    \/ EndDistFindDone
    \/ EndDistCreateDone
    \/ EndFindDone
    \/ EndCompleteDone
    \/ StartSaveDone
    \/ SettleRecord

SpecSettle == InitSettle /\ [][NextSettle]_vars

\* ---------------------------------------------------------------------
\* C32  For every ended race the prize distribution that is written is computed
\*      from the same participant state as the leaderboard and the pool that
\*      finalizeRace returned: sessions ingested while endRaceById is suspended
\*      at a persistence call change neither the winners nor their amounts,
\*      and every winner is found in the finalizeRace leaderboard.
\* ---------------------------------------------------------------------
\* The endRaceById calls suspended between finalizeRace's leaderboard and
\* calculatePrizeDistribution.
C32_Finalizing == {t \in BagToSet(tasks) : t.kind = "end" /\ t.pc = "flush"}

\* The distribution of the race is what it was when finalizeRace took the
\* leaderboard.
C32_DistributionKept ==
    \A t \in C32_Finalizing :
        CalculatePrizeDistribution(t.race)' = CalculatePrizeDistribution(t.race)

\* The winners of the distribution an endRaceById call holds are in its
\* leaderboard.
C32_WinnersInLeaderboard ==
    \A t \in BagToSet(tasks') :
        (t.kind = "end" /\ t.pc = "distFind") =>
            \A i \in 1..Len(t.dist) : t.dist[i].userId \in t.lb

C32_DistributionOfFinalState ==
    [][C32_DistributionKept /\ C32_WinnersInLeaderboard]_vars

C32_WinnersAndAmountsKept == [][C32_DistributionKept]_vars

C32_WinnersFound == [][C32_WinnersInLeaderboard]_vars

\* With no session recorded during the flush both hold.
C32_KeptWithoutSession ==
    [][sessionsLeft' = sessionsLeft => C32_DistributionKept]_vars

\* Once the distribution is computed it is what is written: a later session
\* does not change the records of the call.
C32_WrittenAsComputed ==
    [][\A t \in BagToSet(tasks) :
          (t.kind = "end" /\ t.pc = "distCreate" /\ CopiesIn(t, tasks') < CopiesIn(t, tasks)) =>
              \A i \in 1..Len(t.dist) :
                  <<t.race, t.dist[i].userId>> \in DOMAIN dbPrizes' =>
                      \/ <<t.race, t.dist[i].userId>> \in DOMAIN dbPrizes
                      \/ dbPrizes'[<<t.race, t.dist[i].userId>>].prizeAmount = t.dist[i].prizeAmount]_vars


\* ---------------------------------------------------------------------
\* C33  In every reachable state, whenever the cache's currentRaceId is
\*      non-null, raceSessions and raceParticipants both contain an entry for
\*      it, so addSession never operates on a missing table; also after the
\*      delayed cleanupRaceData of a finalized race and after a startNewRace
\*      whose persistence failed.
\* ---------------------------------------------------------------------
C33_CurrentRaceHasTables ==
    currentRaceId # NoRace =>
        currentRaceId \in DOMAIN raceSessions /\ currentRaceId \in DOMAIN raceParticipants

\* addSession never throws on a missing table.
C33_AddSessionFindsTables == addReturned # "TypeError"

\* setCurrentRace leaves the tables of the race it sets in place.
C33_SetCurrentRaceCreatesTables ==
    [][currentRaceId' # currentRaceId =>
          currentRaceId' \in DOMAIN raceSessions' /\ currentRaceId' \in DOMAIN raceParticipants']_vars

\* The tables of the current race are missing only after the cleanup of a
\* finalized race that is still the cache's current race.
C33_MissingOnlyAfterCleanup ==
    ~C33_CurrentRaceHasTables => currentRaceId \in flushed /\ curRace # currentRaceId


\* =====================================================================
\* POST /user/:userId/record (UserController.updateUserRecord)
\* =====================================================================
\* userSchema.methods.updateGameStats up to its save.
UpdateGameStats(user, betAmount, multiplier, winAmount, isWin) ==
    IF isWin
    THEN [user EXCEPT !.totalFlights = @ + 1,
                      !.flightsWon = @ + 1,
                      !.balance = @ + winAmount - betAmount,
                      !.highestMultiplier = Max(@, multiplier)]
    ELSE [user EXCEPT !.totalFlights = @ + 1,
                      !.balance = IF @ >= betAmount THEN @ - betAmount ELSE 0]

Reply(status) ==
    /\ recordReply' = [status |-> status, before |-> userStats]
    /\ recordReq' = NoRequest

\* A request arrives: `await User.findOne({ userId })`.
RecordArrive ==
    \E d \in RecordInputs, free \in BOOLEAN :
        /\ recordReq = NoRequest
        /\ sessionsLeft > 0
        /\ recordReq' = [pc |-> "find", body |-> d, free |-> free, user |-> NoUser]
        /\ recordReply' = [status |-> "none"]
        /\ UNCHANGED <<raceVars, claimVars, overrideVars, countdownVars, extraVars, prizeVars,
                       retryCount, inFlight, insertAttempts, signal, userStats>>

\* findOne returns: 404 without a user, 400 without the balance for the bet
\* outside free mode, else updateGameStats changes the document and saves it.
RecordFindDone ==
    /\ recordReq.pc = "find"
    /\ IF ~userStats.exists THEN Reply("404")
       ELSE IF ~recordReq.free /\ ~(userStats.balance >= recordReq.body.betAmount)
       THEN Reply("400")
       ELSE /\ recordReq' = [recordReq EXCEPT
                   !.pc = "save",
                   !.user = UpdateGameStats(userStats, recordReq.body.betAmount,
                                            recordReq.body.crashMultiplier,
                                            recordReq.body.winAmount, recordReq.body.isWin)]
            /\ UNCHANGED recordReply
    /\ UNCHANGED <<raceVars, claimVars, overrideVars, countdownVars, extraVars, prizeVars,
                   retryCount, inFlight, insertAttempts, signal, userStats>>

\* The save of updateGameStats returns or throws.  After the save the session goes
\* to addSession and the response reads cachedSession.id: addSession returns
\* null without a current race, and then the read throws; the catch answers 500.
RecordSaveDone ==
    \E dbError \in BOOLEAN :
        /\ recordReq.pc = "save"
        /\ IF dbError
           THEN /\ Reply("500")
                /\ UNCHANGED <<userStats, cacheVars>>
           ELSE /\ userStats' = recordReq.user
                /\ AddSession(1, recordReq.body)
                /\ recordReply' = [status |-> IF addReturned' = "session" THEN "200" ELSE "500",
                                   before |-> userStats]
                /\ recordReq' = NoRequest
        /\ UNCHANGED <<clockVars, dbVars, mgrVars, claimVars, overrideVars, countdownVars, extraVars,
                       prizeVars, retryCount, inFlight, insertAttempts, signal>>

\* The cache has no current race yet, or race 1 is current; the user does not
\* exist, or has no coins, or has 5 coins.
InitRecord ==
    /\ NoCountdown
    /\ now = 0 /\ slow = 0
    /\ dbRace = <<>> /\ dbPrizes = <<>> /\ dbSessions = <<>> /\ dbParticipants = <<>>
    /\ curRace = NoRace /\ timers = <<>> /\ tasks = EmptyBag /\ flushed = {}
    /\ \/ EmptyCache
       \/ /\ currentRaceId = 1
          /\ raceSessions = (1 :> <<>>)
          /\ raceParticipants = (1 :> <<>>)
          /\ pendingSaves = <<>>
    /\ sessionsLeft = MaxSessions
    /\ addReturned = "none"
    /\ NoClaims
    /\ NoGets
    /\ NoPrize
    /\ NoBatch
    /\ userStats \in {NoUser, UserDoc(0), UserDoc(5)}
    /\ recordReq = NoRequest
    /\ recordReply = [status |-> "none"]

NextRecord == RecordArrive \/ RecordFindDone \/ RecordSaveDone

SpecRecord == InitRecord /\ [][NextRecord]_vars

\* ---------------------------------------------------------------------
\* C34  If POST /user/:userId/record does not respond with success, the user's
\*      balance and flight statistics are unchanged; in particular, when no
\*      current race is set the request does not fail after updateGameStats
\*      has been applied and saved.
\* ---------------------------------------------------------------------
C34_Failed == recordReply.status \in {"400", "404", "500"}

C34_FailureLeavesUser == C34_Failed => userStats = recordReply.before

\* The responses sent before updateGameStats leave the user as it was.
C34_RejectionLeavesUser ==
    recordReply.status \in {"400", "404"} => userStats = recordReply.before

\* With a current race that has its tables, a failed request leaves the user as
\* it was.
C34_FailureLeavesUserInRace ==
    (C34_Failed /\ currentRaceId # NoRace) => userStats = recordReply.before

\* Without a current race no request succeeds, and every request that reaches the
\* save changes the user.
C34_NoSuccessWithoutRace == currentRaceId = NoRace => recordReply.status # "200"


\* =====================================================================
\* C35: participant statistics against the sessions of the race
\* =====================================================================
\* The sessions of user u that addSession stored for race r.
C35_SessionsOf(r, u) == {s \in SeqToSet(raceSessions[r]) : s.userId = u}

\* The entry of u in `parts` is the count and the sums over the sessions S.
C35_IsSumOf(parts, u, S) ==
    /\ parts[u].sessionCount = Cardinality(S)
    /\ parts[u].totalBetAmount = SumOver([s \in S |-> s.betAmount], S)
    /\ parts[u].totalWinAmount = SumOver([s \in S |-> s.winAmount], S)
    /\ parts[u].contributionToPool = SumOver([s \in S |-> Max(0, s.winAmount)], S)

\* The users with a stored session of race r and no entry in its table: the
\* cap has evicted them.
C35_Evicted(r) ==
    {s.userId : s \in SeqToSet(raceSessions[r])} \ DOMAIN raceParticipants[r]

\* C35: for the current race and every user in its participant table,
\* sessionCount, totalBetAmount, totalWinAmount and contributionToPool are
\* the count and the sums over all sessions of that user ingested in the race,
\* also after the user was evicted by the cap and ingested again.
C35_StatsAreSumsOfSessions ==
    (currentRaceId # NoRace /\ currentRaceId \in DOMAIN raceParticipants) =>
        \A u \in DOMAIN raceParticipants[currentRaceId] :
            C35_IsSumOf(raceParticipants[currentRaceId], u,
                        C35_SessionsOf(currentRaceId, u))

\* What the code does keep: a user whose entry was never dropped has the sums
\* of all their sessions. Step by step: addSession adds exactly the session to
\* an entry that exists, and starts a missing entry from the session alone.
C35_AccumulatesOntoEntry ==
    [][\A r \in {currentRaceId} \cap DOMAIN raceParticipants :
         \A u \in Users :
            (/\ r \in DOMAIN raceParticipants'
             /\ u \in DOMAIN raceParticipants'[r]
             /\ raceSessions'[r] # raceSessions[r]
             /\ raceSessions'[r][Len(raceSessions'[r])].userId = u)
            => LET s == raceSessions'[r][Len(raceSessions'[r])]
                   before == IF u \in DOMAIN raceParticipants[r]
                             THEN raceParticipants[r][u] ELSE NewParticipant
               IN  /\ raceParticipants'[r][u].sessionCount = before.sessionCount + 1
                   /\ raceParticipants'[r][u].totalBetAmount
                        = before.totalBetAmount + s.betAmount
                   /\ raceParticipants'[r][u].totalWinAmount
                        = before.totalWinAmount + s.winAmount]_vars

\* The sums hold as long as the cap has evicted nobody.
C35_SumsWhileNobodyEvicted ==
    (currentRaceId # NoRace /\ currentRaceId \in DOMAIN raceParticipants
       /\ currentRaceId \in DOMAIN raceSessions /\ C35_Evicted(currentRaceId) = {}
       /\ Cardinality(DOMAIN raceParticipants[currentRaceId]) < Top1000) =>
        \A u \in DOMAIN raceParticipants[currentRaceId] :
            C35_IsSumOf(raceParticipants[currentRaceId], u,
                        C35_SessionsOf(currentRaceId, u))


\* =====================================================================
\* C36: the contributed amount across addSession calls
\* =====================================================================
\* The step is an addSession call that ingested a session into the current race.
C36_Ingests ==
    /\ currentRaceId # NoRace /\ currentRaceId' = currentRaceId
    /\ currentRaceId \in DOMAIN raceSessions
    /\ currentRaceId \in DOMAIN raceSessions'
    /\ Len(raceSessions'[currentRaceId]) = Len(raceSessions[currentRaceId]) + 1

\* The participants the step removed from the table of the current race.
C36_Dropped == DOMAIN raceParticipants[currentRaceId]
                 \ DOMAIN raceParticipants'[currentRaceId]

\* C36: while a race is current, the contributedAmount that
\* calculateRacePrizePool returns never decreases from one addSession call to
\* the next.
C36_ContributedNeverDecreases ==
    [][C36_Ingests =>
         CalculateRacePrizePool(currentRaceId)'.contributedAmount
           >= CalculateRacePrizePool(currentRaceId).contributedAmount]_vars

\* The contributed amount decreases only in a step in which the cap removes
\* a participant who was in the table.
C36_DecreasesOnlyByEviction ==
    [][(C36_Ingests /\ C36_Dropped = {}) =>
         CalculateRacePrizePool(currentRaceId)'.contributedAmount
           >= CalculateRacePrizePool(currentRaceId).contributedAmount]_vars


\* =====================================================================
\* The participant sync and the restore after a restart
\* =====================================================================
\* The row batchSyncRaceParticipants builds from the leaderboard entry e.
SyncRow(parts, e) ==
    [totalBetAmount |-> parts[e.userId].totalBetAmount,
     totalWinAmount |-> parts[e.userId].totalWinAmount,
     netProfit |-> parts[e.userId].netProfit,
     contributionToPool |-> parts[e.userId].contributionToPool,
     sessionCount |-> parts[e.userId].sessionCount,
     rank |-> e.rank]

\* RaceParticipant.batchUpsert: one updateOne with upsert per participant,
\* filtered by userId; the rows of other users stay as they are.
BatchUpsert(rows, data) ==
    [u \in DOMAIN rows \cup DOMAIN data |-> IF u \in DOMAIN data THEN data[u] ELSE rows[u]]

\* RaceParticipant.getLeaderboard(raceId, limit): find, sort by rank, limit.
\* The sets of users the query can return: the order among rows of the same
\* rank is the database's choice.
GetLeaderboard(rows, limit) ==
    IF Cardinality(DOMAIN rows) <= limit THEN {DOMAIN rows}
    ELSE LET upTo(c) == {u \in DOMAIN rows : rows[u].rank <= c}
             cut == CHOOSE c \in {rows[u].rank : u \in DOMAIN rows} :
                       /\ Cardinality(upTo(c)) >= limit
                       /\ Cardinality(upTo(c - 1)) < limit
             tied == {u \in DOMAIN rows : rows[u].rank = cut}
         IN  {upTo(cut - 1) \cup T : T \in {X \in SUBSET tied :
                  Cardinality(X) = limit - Cardinality(upTo(cut - 1))}}

\* restoreRaceParticipants: the rows of the users K go into the table `parts`.
RestoreRaceParticipants(parts, rows, K) ==
    [u \in DOMAIN parts \cup K |->
       IF u \in K
       THEN [totalBetAmount |-> rows[u].totalBetAmount,
             totalWinAmount |-> rows[u].totalWinAmount,
             netProfit |-> rows[u].netProfit,
             contributionToPool |-> rows[u].contributionToPool,
             sessionCount |-> rows[u].sessionCount]
       ELSE parts[u]]

\* The rows of race r in the RaceParticipant collection.
RowsOf(r) == IF r \in DOMAIN dbParticipants THEN dbParticipants[r] ELSE <<>>

\* The sync interval fires: batchSyncRaceParticipants writes the leaderboard of
\* the current race; a bulkWrite that fails is logged and skipped.
BatchSyncRaceParticipants ==
    /\ currentRaceId # NoRace
    /\ currentRaceId \in DOMAIN raceParticipants
    /\ raceParticipants[currentRaceId] # <<>>
    /\ \E ok \in BOOLEAN, lb \in {GetRaceLeaderboard(currentRaceId, Top1000)} :
          LET r == currentRaceId
              data == [u \in {lb[i].userId : i \in 1..Len(lb)} |->
                         SyncRow(raceParticipants[r],
                                 lb[CHOOSE i \in 1..Len(lb) : lb[i].userId = u])]
          IN  dbParticipants' =
                IF ok THEN [x \in DOMAIN dbParticipants \cup {r} |->
                              IF x = r THEN BatchUpsert(RowsOf(r), data)
                              ELSE dbParticipants[x]]
                ELSE dbParticipants
    /\ UNCHANGED <<notRaceVars, clockVars, dbRace, dbPrizes, dbSessions, mgrVars, cacheVars>>

\* The process restarts while race 1 is active: the memory of the old process
\* is gone, initializeFromDatabase sets the race current and
\* restoreFromDatabase reads its participants back.
SyncRestart ==
    /\ currentRaceId # NoRace
    /\ \E K \in GetLeaderboard(RowsOf(currentRaceId), Top1000) :
          raceParticipants' =
             (currentRaceId :> RestoreRaceParticipants(<<>>, RowsOf(currentRaceId), K))
    /\ raceSessions' = (currentRaceId :> <<>>)
    /\ pendingSaves' = <<>>
    /\ addReturned' = "none"
    /\ UNCHANGED <<notRaceVars, clockVars, dbVars, mgrVars, currentRaceId, sessionsLeft>>

\* Race 1 is current, its table is one short of the cap or at the cap, and
\* nothing has been synced yet.
InitSync ==
    /\ InitCache
    /\ currentRaceId = 1
    /\ Cardinality(DOMAIN raceParticipants[1]) >= Top1000 - 1

NextSync ==
    \/ RecordSession
    \/ BatchSyncRaceParticipants
    \/ SyncRestart

SpecSync == InitSync /\ [][NextSync]_vars

\* The collection holds, for every participant in memory, the row the sync
\* writes for it: the state a successful batchSyncRaceParticipants leaves
\* until the next addSession changes the table.
C37_Synced ==
    /\ currentRaceId # NoRace
    /\ currentRaceId \in DOMAIN raceParticipants
    /\ raceParticipants[currentRaceId] # <<>>
    /\ \A lb \in {GetRaceLeaderboard(currentRaceId, Top1000)} :
           \A i \in 1..Len(lb) :
              /\ lb[i].userId \in DOMAIN RowsOf(currentRaceId)
              /\ RowsOf(currentRaceId)[lb[i].userId]
                   = SyncRow(raceParticipants[currentRaceId], lb[i])

\* The step is the restart: the only step that leaves the collection and the
\* session counter alone.
C37_Restarts == dbParticipants' = dbParticipants /\ sessionsLeft' = sessionsLeft

\* C37: after a successful batchSyncRaceParticipants and a restart with no
\* addSession in between, restoreRaceParticipants rebuilds a table with the
\* same users and the same statistics as the one in memory before the
\* restart, also when the cap evicted users between earlier successful syncs.
C37_RestoreRebuildsSyncedTable ==
    [][(C37_Synced /\ C37_Restarts) =>
         raceParticipants'[currentRaceId] = raceParticipants[currentRaceId]]_vars

\* The restore rebuilds the table when the collection holds no row of a user
\* who has left the table.
C37_RebuildsWithoutStaleRows ==
    [][(C37_Synced /\ C37_Restarts
          /\ DOMAIN RowsOf(currentRaceId) = DOMAIN raceParticipants[currentRaceId]) =>
         raceParticipants'[currentRaceId] = raceParticipants[currentRaceId]]_vars

\* The sync never removes a row: the users of the collection only grow.
C37_SyncKeepsRows ==
    [][\A r \in DOMAIN dbParticipants :
         r \in DOMAIN dbParticipants' /\ DOMAIN dbParticipants[r] \subseteq DOMAIN dbParticipants'[r]]_vars

\* The restored table is never larger than the cap.
C37_RestoredWithinCap ==
    \A r \in DOMAIN raceParticipants : Cardinality(DOMAIN raceParticipants[r]) <= Top1000


\* =====================================================================
\* The phase events of a game
\* =====================================================================
\* The events of the two phases of a game.
PhaseEvents == {"bettingCountdownStarted", "bettingPhaseEnded",
                "gameCountdownStarted", "gamePhaseEnded"}

\* The last phase event after the events evs: every phase event carries
\* this.currentState.gameId, and bettingCountdownStarted opens a new gameId.
LastEventAfter(prev, evs) ==
    LET ph == SelectSeq(evs, LAMBDA e : e \in PhaseEvents)
    IN  IF ph = <<>> THEN prev ELSE ph[Len(ph)]

\* A step of the manager with its phase events recorded.
PhaseStep(st) ==
    /\ SetCd(st)
    /\ lastEvent' = LastEventAfter(lastEvent, st.emitted)
    /\ UNCHANGED <<saveImmediate, configFile, raceVars, claimVars, overrideVars, prizeVars,
                   flushVars, sessionIdOf>>

\* startCountdown() or startBettingPhase() is called.
PhaseStartCountdown == round < MaxRound /\ PhaseStep(startCountdown(CdState))

\* startGamePhase() is called.
PhaseStartGamePhase == PhaseStep(startGamePhase(CdState))

\* stopCountdown() is called.
PhaseStopCountdown == PhaseStep(stopCountdown(CdState))

\* A pending phase timer fires and its handler runs.
PhaseTimer ==
    \E t \in phaseTimers :
        LET st == [CdState EXCEPT !.phaseTimers = @ \ {t}, !.fired = t.id]
        IN  /\ (t.handler = "onGameCountdownFinished" /\ config.autoStart) => round < MaxRound
            /\ IF t.handler = "onBettingCountdownFinished"
               THEN PhaseStep(onBettingCountdownFinished(st))
               ELSE PhaseStep(onGameCountdownFinished(st))

\* updateConfig(newConfig) is called.
PhaseUpdateConfig == \E nc \in NewConfigs : PhaseStep(updateConfig(CdState, nc))

\* The manager as constructed, with autoStart on or off.
InitPhases ==
    /\ InitCountdownManager
    /\ lastEvent = LastEventAfter("none", emitted)
    /\ RaceIdle
    /\ NoClaims
    /\ NoGets
    /\ NoPrize
    /\ NoFlush

NextPhases ==
    \/ PhaseStartCountdown
    \/ PhaseStartGamePhase
    \/ PhaseStopCountdown
    \/ PhaseTimer
    \/ PhaseUpdateConfig

SpecPhases == InitPhases /\ [][NextPhases]_vars

\* Event e for the game g may follow the last event p of that game.
C38_Follows(p, e, g) ==
    CASE e = "bettingCountdownStarted" -> TRUE
      [] e = "bettingPhaseEnded" -> p = "bettingCountdownStarted"
      [] e = "gameCountdownStarted" -> p = "bettingPhaseEnded" /\ g # NoGame
      [] e = "gamePhaseEnded" -> p = "gameCountdownStarted"

\* The phase events a step emits, in the order of emission.
C38_Emits == SelectSeq(emitted', LAMBDA e : e \in PhaseEvents)

\* Every phase event of the step follows the event before it.
C38_StepInOrder ==
    \A i \in 1..Len(C38_Emits) :
        C38_Follows(IF i = 1 THEN lastEvent ELSE C38_Emits[i - 1], C38_Emits[i], gameId)

\* C38: for every gameId the events occur in the order
\* bettingCountdownStarted, bettingPhaseEnded, gameCountdownStarted,
\* gamePhaseEnded: under any sequence of startCountdown, startBettingPhase,
\* startGamePhase and stopCountdown calls and timer firings, the gaming phase
\* is never entered with a null gameId or without a finished betting phase
\* for that gameId.
C38_EventsInOrder == [][C38_StepInOrder]_vars

\* The two parts about the gaming phase, each on its own.
C38_GamingHasGameId ==
    [][phase' = "gaming" => gameId' # NoGame]_vars
C38_GamingAfterBettingEnded ==
    [][(phase' = "gaming" /\ phase # "gaming") =>
          LastEventAfter(lastEvent, SubSeq(emitted', 1, Len(emitted') - 1))
             = "bettingPhaseEnded"]_vars

\* What the timers alone do: a step that runs a timer handler emits in order.
C38_TimersEmitInOrder == [][fired' # NoTimer => C38_StepInOrder]_vars

\* A phase ends only after it has started.
C38_EndsAfterStart ==
    [][\A i \in 1..Len(C38_Emits) :
          C38_Emits[i] \in {"bettingPhaseEnded", "gamePhaseEnded"} =>
             C38_Follows(IF i = 1 THEN lastEvent ELSE C38_Emits[i - 1],
                         C38_Emits[i], gameId)]_vars

\* The steps that break the order are calls of startGamePhase.
C38_OnlyStartGamePhaseBreaks ==
    [][~C38_StepInOrder => called'.op = "startGamePhase"]_vars


\* =====================================================================
\* The save queue under addSession, batchSaveToDB and cleanup
\* =====================================================================
PendingMaxAge == 2      \* the hour pending saves are kept, in hours scaled to ticks
QueueMaxTime == 3       \* the ticks of the clock of the queue

\* updateUserRecord hands a body with its sessionId to addSession: a sessionId
\* of its own, or the sessionId an earlier request carried.
QueueRecord ==
    \E d \in RecordInputs, sid \in 1..MaxSessions :
        /\ Listening
        /\ AddSession(1, d)
        /\ sessionIdOf' = [sessionIdOf EXCEPT ![sessionsLeft] = sid]
        /\ UNCHANGED <<clockVars, dbVars, mgrVars, flushVars, claimVars, overrideVars,
                       countdownVars, lastEvent, prizeVars>>

\* The cleanup interval fires: cleanup() keeps the pending saves younger than
\* an hour.
QueueCleanup ==
    /\ pendingSaves' = SelectSeq(pendingSaves, LAMBDA s : now - s.timestamp < PendingMaxAge)
    /\ UNCHANGED <<clockVars, dbVars, mgrVars, currentRaceId, raceSessions, raceParticipants,
                   sessionsLeft, addReturned, notRaceVars>>

\* Time passes.
QueueTick ==
    /\ now < QueueMaxTime
    /\ now' = now + 1
    /\ UNCHANGED <<slow, dbVars, mgrVars, cacheVars, notRaceVars>>

NextQueue ==
    \/ QueueRecord
    \/ BatchSaveFire
    \/ InsertDone
    \/ QueueCleanup
    \/ QueueTick

SpecQueue == InitFlush /\ [][NextQueue]_vars

\* The sessions addSession has ingested: race 1 stays current.
C39_Ingested == SeqToSet(raceSessions[1])

\* How often session s is in the pendingSaves queue.
C39_Queued(s) == Cardinality({k \in 1..Len(pendingSaves) : pendingSaves[k].id = s.id})

\* In how many batches awaiting their bulk insert session s is.
C39_InFlight(s) ==
    Cardinality({f \in inFlight : \E k \in 1..Len(f.sessions) : f.sessions[k].id = s.id})

\* The document of session s is in the GameSession collection.
C39_Inserted(s) == \E k \in 1..Len(dbSessions) : dbSessions[k] = BatchDbSession(s)

\* The places that hold session s.
C39_Places(s) == C39_Queued(s) + C39_InFlight(s) + (IF C39_Inserted(s) THEN 1 ELSE 0)

\* No session is in two places or twice in the queue.
C39_AtMostOnePlace == \A s \in C39_Ingested : C39_Places(s) <= 1

\* A new session is in the queue, and a session leaves its last place only
\* when its fourth bulk insert has failed or when cleanup finds it an hour old.
C39_LeavesOnlyDroppedOrExpired ==
    /\ \A s \in C39_Ingested' \ C39_Ingested : C39_Queued(s)' = 1
    /\ \A s \in C39_Ingested :
          (C39_Places(s) >= 1 /\ C39_Places(s)' = 0) =>
             \/ C39_InFlight(s) = 1 /\ retryCount[s.id] = 3 /\ insertAttempts[s.id] = 4
             \/ C39_Queued(s) = 1 /\ now - s.timestamp >= PendingMaxAge

\* C39: under any interleaving of addSession, batchSaveToDB (suspended at its
\* bulk insert) and the cleanup of expired pending saves, every ingested
\* session is at each moment in exactly one place: the pendingSaves queue, a
\* batch in flight, the collection, dropped after 3 failed retries, or
\* discarded as older than an hour; no session is lost silently and none is
\* in the queue twice.
C39_EverySessionInOnePlace ==
    [](C39_AtMostOnePlace) /\ [][C39_LeavesOnlyDroppedOrExpired]_vars

\* The ingested sessions carry sessionIds of their own.
C39_OwnSessionIds ==
    \A s, t \in C39_Ingested : s.id # t.id => SessionIdOf(s) # SessionIdOf(t)

\* With sessionIds of their own, no session is in two places.
C39_OnePlaceWithOwnSessionIds == C39_OwnSessionIds => C39_AtMostOnePlace

\* No session is in the queue twice, and none in two batches.
C39_NeverQueuedTwice ==
    \A s \in C39_Ingested : C39_Queued(s) + C39_InFlight(s) <= 1

\* No session leaves its last place silently.
C39_NoneLostSilently == [][C39_LeavesOnlyDroppedOrExpired]_vars


\* =====================================================================
\* The restart after a failed start of a race
\* =====================================================================
\* raceDoc.save() rejects with a database error: startNewRace logs it and
\* returns; no race is current and no end timer is set.  Persistence succeeds
\* eventually: a save fails only while a backup interval within the time of
\* the model is still to fire.
StartSaveFail ==
    \E t \in BagToSet(tasks) :
        /\ t.kind = "start" /\ t.pc = "save"
        /\ \E i \in 1..Len(timers) : timers[i].kind = "backup" /\ timers[i].due <= MaxTime
        /\ SetMgr(Without(t))
        /\ UNCHANGED <<notRaceVars, clockVars, dbVars, cacheVars>>

\* The timer that fires next is of the kind k.
TimerDue(k) == \E i \in 1..Len(timers) : IsNextTimer(i) /\ timers[i].kind = k

\* What the event loop does by itself besides the backup interval and the end
\* timers: time passes, the other timers fire and the continuations of
\* answered database calls run.  No session is recorded, so no race has
\* sessions to insert when it ends.
RestartProgress ==
    \/ Second
    \/ Jump
    \/ BootFire
    \/ BootQueryDone
    \/ BootRestoreDone
    \/ CleanupFire
    \/ EndDistFindDone
    \/ EndDistCreateDone
    \/ EndFindDone
    \/ EndCompleteDone
    \/ StartSaveDone

\* A step of RestartProgress is possible: a database call is pending, or the
\* boot or a cleanup timer is the next to fire, or time can pass.
ProgressDue ==
    \/ \E t \in BagToSet(tasks) : t.pc \notin {"awaitEnd", "flush"}
    \/ TimerDue("boot")
    \/ TimerDue("cleanup")
    \/ /\ NoTimerDue
       /\ IF tasks # EmptyBag
          THEN slow < MaxSlow /\ now < MaxTime
          ELSE \E i \in 1..Len(timers) : timers[i].due <= MaxTime

ProgressDueIsEnabled == ProgressDue <=> ENABLED <<RestartProgress>>_vars

NextRestart ==
    \/ RestartProgress
    \/ BackupFire
    \/ EndTimerFire
    \/ StartSaveFail

\* The race lifecycle with failing saves, under a fair event loop: weak
\* fairness of the steps of RestartProgress, of the backup interval and of
\* the end timers.  Each is enabled exactly when its condition below holds
\* (ProgressDueIsEnabled for the first), and its fairness is written with
\* that condition.  The
\* process starts with no race or with a running one; the restart after an
\* expired race is followed by SpecExpired.
SpecRestart ==
    /\ InitRace
    /\ [][NextRestart]_vars
    /\ ([]<>(~ProgressDue) \/ []<><<RestartProgress>>_vars)
    /\ ([]<>(~TimerDue("backup")) \/ []<><<BackupFire>>_vars)
    /\ ([]<>(~TimerDue("end")) \/ []<><<EndTimerFire>>_vars)

\* The backup interval is to fire within the time of the model.
C40_BackupPending ==
    \E i \in 1..Len(timers) : timers[i].kind = "backup" /\ timers[i].due <= MaxTime

\* No race is current, as after a failed save, and the backup interval is
\* still to fire.
C40_WithoutRace == curRace = NoRace /\ C40_BackupPending

\* initializeFromDatabase has returned.
C40_BootDone ==
    /\ \A i \in 1..Len(timers) : timers[i].kind # "boot"
    /\ \A t \in BagToSet(tasks) : t.kind # "boot"

\* Every path of initializeFromDatabase sets the backup interval, and it is
\* only ever replaced.
C40_BackupArmed ==
    C40_BootDone => \E i \in 1..Len(timers) : timers[i].kind = "backup"

\* Without a current race, a race becomes current once the backup interval
\* has fired.
C40_RestartsAfterFailure == C40_WithoutRace ~> (curRace # NoRace)

\* C40: when persisting the new race in startNewRace fails, the system does
\* not stay without a current race forever: provided persistence eventually
\* succeeds, and under fair firing of the backup interval, a new race is
\* eventually started (always eventually currentRace is non-null).  Within
\* the time of the model: the backup interval is always set once the boot is
\* over, and whenever no race is current while it is still to fire, a race
\* becomes current later.
C40_RaceEventuallyCurrent == [](C40_BackupArmed) /\ C40_RestartsAfterFailure

\* The save of the first race has failed: the boot is over, nothing is
\* persisted or under way, and only the backup interval is left to start a
\* race.
C40_Witness ==
    /\ C40_WithoutRace
    /\ C40_BootDone
    /\ tasks = EmptyBag
    /\ dbRace = <<>>

\* The race that the backup interval started after the failure is current.
C40_Restarted ==
    /\ curRace # NoRace
    /\ DOMAIN dbRace = {curRace}
    /\ curRace >= BootTime + RaceDuration

====
